---- MODULE Spec2Model ----
(***************************************************************************)
(* Signature verification core of PdfForQtLib (pdfsignaturehandler.cpp):   *)
(* PDFSignatureHandler::verifySignatures, the three verification engines,  *)
(* the byte-range assembler and the process-wide OpenSSL mutex.            *)
(***************************************************************************)
EXTENDS Integers, Sequences, FiniteSets, TLC

(***************************************************************************)
(* Bounds of the model.                                                    *)
(***************************************************************************)
NumThreads == 2
MaxFields == 2
MaxSigners == 2
MaxRanges == 2
MaxCerts == 2
MaxFileLen == 2

\* Width of PDFInteger in the model (64 in the build); sums wrap at this width.
IntBits == 6

\* How many calls of add a certificate store receives.
MaxAdds == 3

\* How many add*Error and add*Warning calls a result receives.
MaxMessages == 3

Threads == 1..NumThreads

MaxPDFInteger == 2^(IntBits - 1) - 1

\* Two's complement wrap of a PDFInteger sum or difference.
WrapPDFInteger(x) == ((x + 2^(IntBits - 1)) % 2^IntBits) - 2^(IntBits - 1)

(***************************************************************************)
(* PDFSignatureVerificationResult: flags, messages, certificate infos.     *)
(***************************************************************************)
CertificateErrorFlags ==
    { "Error_Certificate_Invalid", "Error_Certificate_NoSignatures",
      "Error_Certificate_Missing", "Error_Certificate_Generic",
      "Error_Certificate_Expired", "Error_Certificate_SelfSigned",
      "Error_Certificate_SelfSignedChain", "Error_Certificate_TrustedNotFound",
      "Error_Certificate_Revoked", "Error_Certificate_Other" }

SignatureErrorFlags ==
    { "Error_Signature_Invalid", "Error_Signature_SourceCertificateMissing",
      "Error_Signature_NoSignaturesFound", "Error_Signature_DigestFailure",
      "Error_Signature_DataOther", "Error_Signature_DataCoveredBySignatureMissing" }

WarningFlags == { "Warning_Signature_NotCoveredBytes" }

\* A default constructed result: invalid reference, empty name, no flag.
EmptyResult ==
    [ signatureFieldReference |-> 0,
      signatureFieldQualifiedName |-> "",
      flags |-> {},
      errors |-> <<>>,
      warnings |-> <<>>,
      certificateInfos |-> <<>> ]

NewResult(reference, qualifiedName) ==
    [ EmptyResult EXCEPT !.signatureFieldReference = reference,
                         !.signatureFieldQualifiedName = qualifiedName ]

hasFlag(result, flag) == flag \in result.flags

setFlag(result, flag) == [ result EXCEPT !.flags = @ \cup {flag} ]

hasCertificateError(result) == result.flags \cap CertificateErrorFlags # {}

hasSignatureError(result) == result.flags \cap SignatureErrorFlags # {}

isCertificateValid(result) == hasFlag(result, "Certificate_OK")

isSignatureValid(result) == hasFlag(result, "Signature_OK")

\* An addError that sets the flag and puts the message among the warnings.
addError_ToWarnings(result, flag, message) ==
    [ result EXCEPT !.flags = @ \cup {flag}, !.warnings = Append(@, message) ]

addError(result, flag, message) ==
    [ result EXCEPT !.flags = @ \cup {flag}, !.errors = Append(@, message) ]

addNoHandlerError(result, format) ==
    addError(result, "Error_NoHandler",
             "No signature handler for signature format '" \o format \o "'.")

addInvalidCertificateError(result) ==
    addError(result, "Error_Certificate_Invalid", "Certificate format is invalid.")

addNoSignaturesError(result) ==
    addError(result, "Error_Certificate_NoSignatures", "No signatures in certificate data.")

addCertificateMissingError(result) ==
    addError(result, "Error_Certificate_Missing", "Certificate is missing.")

addCertificateGenericError(result) ==
    addError(result, "Error_Certificate_Generic",
             "Generic error occured during certificate validation.")

addCertificateExpiredError(result) ==
    addError(result, "Error_Certificate_Expired", "Certificate has expired.")

addCertificateSelfSignedError(result) ==
    addError(result, "Error_Certificate_SelfSigned", "Certificate is self-signed.")

addCertificateSelfSignedInChainError(result) ==
    addError(result, "Error_Certificate_SelfSignedChain", "Self-signed certificate in chain.")

addCertificateTrustedNotFoundError(result) ==
    addError(result, "Error_Certificate_TrustedNotFound", "Trusted certificate not found.")

addCertificateRevokedError(result) ==
    addError(result, "Error_Certificate_Revoked", "Certificate has been revoked.")

addCertificateOtherError(result, error) ==
    addError(result, "Error_Certificate_Other",
             "Certificate validation failed with code " \o ToString(error) \o ".")

addInvalidSignatureError(result) ==
    addError(result, "Error_Signature_Invalid", "Signature is invalid.")

addSignatureNoSignaturesFoundError(result) ==
    addError(result, "Error_Signature_NoSignaturesFound", "No signatures found in certificate.")

addSignatureCertificateMissingError(result) ==
    addError(result, "Error_Signature_SourceCertificateMissing",
             "Signature certificate is missing.")

addSignatureDigestFailureError(result) ==
    addError(result, "Error_Signature_DigestFailure",
             "Signed data has different hash function digest.")

addSignatureDataOtherError(result) ==
    addError(result, "Error_Signature_DataOther", "Signed data are invalid.")

addSignatureDataCoveredBySignatureMissingError(result) ==
    addError(result, "Error_Signature_DataCoveredBySignatureMissing",
             "Data covered by signature are not present.")

addSignatureNotCoveredBytesWarning(result, count) ==
    [ result EXCEPT !.flags = @ \cup {"Warning_Signature_NotCoveredBytes"},
                    !.warnings = Append(@, ToString(count)
                                             \o " bytes are not covered by signature.") ]

addCertificateInfo(result, info) ==
    [ result EXCEPT !.certificateInfos = Append(@, info) ]

\* A validate that looks at the certificate phase only.
validate_CertificateOnly(result) ==
    IF isCertificateValid(result) THEN setFlag(result, "OK") ELSE result

\* A validate that refuses OK to a result that carries a warning.
validate_UnlessWarned(result) ==
    IF isCertificateValid(result) /\ isSignatureValid(result)
       /\ result.flags \cap WarningFlags = {}
    THEN setFlag(result, "OK")
    ELSE result

\* PDFSignatureVerificationResult::validate
validate(result) ==
    IF isCertificateValid(result) /\ isSignatureValid(result)
    THEN setFlag(result, "OK")
    ELSE result

(***************************************************************************)
(* QByteArray operations used by the assembler.  A byte of the file is a   *)
(* one character string; a byte of Contents is a number 0..255.            *)
(***************************************************************************)
HexDigits == << "0", "1", "2", "3", "4", "5", "6", "7",
                "8", "9", "a", "b", "c", "d", "e", "f" >>

RECURSIVE toHex(_)
toHex(bytes) ==
    IF bytes = <<>> THEN <<>>
    ELSE << HexDigits[(Head(bytes) \div 16) + 1], HexDigits[(Head(bytes) % 16) + 1] >>
         \o toHex(Tail(bytes))

UpperChar(c) ==
    CASE c = "a" -> "A" [] c = "b" -> "B" [] c = "c" -> "C"
      [] c = "d" -> "D" [] c = "e" -> "E" [] c = "f" -> "F"
      [] OTHER -> c

toUpper(bytes) == [ i \in 1..Len(bytes) |-> UpperChar(bytes[i]) ]

\* QByteArray::indexOf(needle): zero based index of the first occurrence,
\* -1 when there is none; an empty needle is found at 0.
indexOf(data, needle) ==
    LET matches == { i \in 0..(Len(data) - Len(needle)) :
                        SubSeq(data, i + 1, i + Len(needle)) = needle }
    IN  IF Len(needle) = 0 THEN 0
        ELSE IF matches = {} THEN -1
        ELSE CHOOSE i \in matches : \A j \in matches : i <= j

(***************************************************************************)
(* PDFClosedIntervalSet: a set of closed intervals kept merged.            *)
(***************************************************************************)
EmptyIntervalSet == {}

addInterval(intervals, low, high) == intervals \cup (low..high)

isCovered(intervals, low, high) == (low..high) \subseteq intervals

getTotalLength(intervals) == Cardinality(intervals)

(***************************************************************************)
(* PDFPublicKeySignatureHandler::getSignedDataBuffer                       *)
(***************************************************************************)
RECURSIVE SumOfSizes(_)
SumOfSizes(byteRanges) ==
    IF byteRanges = <<>> THEN 0
    ELSE LET front == SubSeq(byteRanges, 1, Len(byteRanges) - 1)
         IN  WrapPDFInteger(SumOfSizes(front) + byteRanges[Len(byteRanges)].size)

\* A loop over the byte ranges that copies one byte less of each range.
RECURSIVE AppendByteRanges_OneByteShort(_, _, _)
AppendByteRanges_OneByteShort(byteRanges, sourceData, acc) ==
    IF byteRanges = <<>> THEN acc
    ELSE LET byteRange == Head(byteRanges)
             startOffset == byteRange.offset
             endOffset == WrapPDFInteger(byteRange.offset + byteRange.size)
         IN  IF startOffset = endOffset
             THEN AppendByteRanges_OneByteShort(Tail(byteRanges), sourceData, acc)
             ELSE IF \/ startOffset > endOffset
                     \/ startOffset < 0
                     \/ endOffset < 0
                     \/ startOffset >= Len(sourceData)
                     \/ endOffset > Len(sourceData)
             THEN [ acc EXCEPT !.failed = TRUE ]
             ELSE AppendByteRanges_OneByteShort(Tail(byteRanges), sourceData,
                    [ acc EXCEPT
                        !.outputBuffer = @ \o SubSeq(sourceData, startOffset + 1, endOffset - 1),
                        !.bytesCoveredBySignature =
                            addInterval(@, startOffset, endOffset - 1) ])

\* The loop over the byte ranges; acc carries outputBuffer and
\* bytesCoveredBySignature, failed is the early return.
RECURSIVE AppendByteRanges(_, _, _)
AppendByteRanges(byteRanges, sourceData, acc) ==
    IF byteRanges = <<>> THEN acc
    ELSE LET byteRange == Head(byteRanges)
             startOffset == byteRange.offset
             endOffset == WrapPDFInteger(byteRange.offset + byteRange.size)
         IN  IF startOffset = endOffset
             THEN AppendByteRanges(Tail(byteRanges), sourceData, acc)
             ELSE IF \/ startOffset > endOffset
                     \/ startOffset < 0
                     \/ endOffset < 0
                     \/ startOffset >= Len(sourceData)
                     \/ endOffset > Len(sourceData)
             THEN [ acc EXCEPT !.failed = TRUE ]
             ELSE AppendByteRanges(Tail(byteRanges), sourceData,
                    [ acc EXCEPT
                        !.outputBuffer = @ \o SubSeq(sourceData, startOffset + 1, endOffset),
                        !.bytesCoveredBySignature =
                            addInterval(@, startOffset, endOffset - 1) ])

\* sourceData.indexOf(hexContents), then the retry in upper case when the
\* first search finds nothing.
IndexOrRetry(first, retry) == IF first = -1 THEN retry ELSE first

\* The interval of an occurrence at index, widened by the delimiters < and >.
WidenedInterval(index, size, sourceData) ==
    [ firstByteIndex |->
        IF index > 0 /\ sourceData[index] = "<" THEN index - 1 ELSE index,
      lastByteIndex |->
        IF index + size < Len(sourceData) /\ sourceData[index + size + 1] = ">"
        THEN index + size ELSE index + size - 1 ]

\* The interval found for an index, << >> when the search failed.
IntervalAt(index, size, sourceData) ==
    IF index = -1 THEN << >> ELSE << WidenedInterval(index, size, sourceData) >>

\* The interval of the hex encoded Contents found in the file, widened by
\* the delimiters; << >> when the search fails.
ContentsInterval(contents, sourceData) ==
    IntervalAt(IndexOrRetry(indexOf(sourceData, toHex(contents)),
                            indexOf(sourceData, toUpper(toHex(contents)))),
               2 * Len(contents), sourceData)

\* bytesCoveredBySignature after the interval of Contents was added to it.
WithContentsInterval(bytesCoveredBySignature, found) ==
    IF found = << >> THEN bytesCoveredBySignature
    ELSE addInterval(bytesCoveredBySignature, found[1].firstByteIndex, found[1].lastByteIndex)

\* A coverage check that reports the bytes the signature covers instead of
\* the bytes it does not cover.
CheckCoverage_ReportsCovered(result, covered, sourceData) ==
    IF ~isCovered(covered, 0, Len(sourceData) - 1)
    THEN addSignatureNotCoveredBytesWarning(result, getTotalLength(covered))
    ELSE result

\* The warning about the bytes of the file that the signature does not cover.
CheckCoverage(result, covered, sourceData) ==
    IF ~isCovered(covered, 0, Len(sourceData) - 1)
    THEN addSignatureNotCoveredBytesWarning(result, Len(sourceData) - getTotalLength(covered))
    ELSE result

\* An end of the loop that returns nullptr for a range out of the file
\* without recording the error.
AfterByteRanges_SilentFailure(result, loop, signature, sourceData, bioAlloc) ==
    IF loop.failed
    THEN [ bio |-> FALSE, outputBuffer |-> loop.outputBuffer, result |-> result ]
    ELSE [ bio |-> bioAlloc, outputBuffer |-> loop.outputBuffer,
           result |-> CheckCoverage(result,
                        WithContentsInterval(loop.bytesCoveredBySignature,
                            ContentsInterval(signature.contents.data, sourceData)),
                        sourceData) ]

\* What getSignedDataBuffer does with the outcome of the loop: the error
\* and nullptr for a range out of the file; otherwise the search for
\* Contents, the coverage check and BIO_new_mem_buf.
AfterByteRanges(result, loop, signature, sourceData, bioAlloc) ==
    IF loop.failed
    THEN [ bio |-> FALSE, outputBuffer |-> loop.outputBuffer,
           result |-> addSignatureDataCoveredBySignatureMissingError(result) ]
    ELSE [ bio |-> bioAlloc, outputBuffer |-> loop.outputBuffer,
           result |-> CheckCoverage(result,
                        WithContentsInterval(loop.bytesCoveredBySignature,
                            ContentsInterval(signature.contents.data, sourceData)),
                        sourceData) ]

\* A getSignedDataBuffer without the check of the sum of the sizes against
\* the size of the file.
getSignedDataBuffer_NoSanityCheck(result, signature, sourceData, bioAlloc) ==
    AfterByteRanges(result,
        AppendByteRanges(signature.byteRanges, sourceData,
            [ failed |-> FALSE, outputBuffer |-> <<>>,
              bytesCoveredBySignature |-> EmptyIntervalSet ]),
        signature, sourceData, bioAlloc)

\* Returns the memory bio (bio = FALSE is nullptr), the output buffer and
\* the result with the error or warning added.  bioAlloc tells whether
\* BIO_new_mem_buf succeeds.
getSignedDataBuffer(result, signature, sourceData, bioAlloc) ==
    IF SumOfSizes(signature.byteRanges) > Len(sourceData)
    THEN [ bio |-> FALSE, outputBuffer |-> <<>>,
           result |-> addSignatureDataCoveredBySignatureMissingError(result) ]
    ELSE AfterByteRanges(result,
            AppendByteRanges(signature.byteRanges, sourceData,
                [ failed |-> FALSE, outputBuffer |-> <<>>,
                  bytesCoveredBySignature |-> EmptyIntervalSet ]),
            signature, sourceData, bioAlloc)

\* SHA1 of a buffer: a digest that names the hashed bytes.
SHA1(buffer) == << "sha1" >> \o buffer

\* The bio over the SHA1 of the buffer the base class assembled.
HashedBuffer(base, bioAlloc) ==
    IF base.bio
    THEN [ bio |-> bioAlloc, outputBuffer |-> SHA1(base.outputBuffer),
           result |-> base.result ]
    ELSE [ bio |-> FALSE, outputBuffer |-> <<>>, result |-> base.result ]

\* PDFSignatureHandler_adbe_pkcs7_sha1::getSignedDataBuffer
getSignedDataBuffer_sha1(result, signature, sourceData, bioAlloc) ==
    HashedBuffer(getSignedDataBuffer(result, signature, sourceData, bioAlloc), bioAlloc)

(***************************************************************************)
(* Codes of the crypto library that the engines switch on.                 *)
(***************************************************************************)
X509_V_OK == 0
X509_V_ERR_UNABLE_TO_GET_ISSUER_CERT == 2
X509_V_ERR_CERT_SIGNATURE_FAILURE == 7
X509_V_ERR_CERT_HAS_EXPIRED == 10
X509_V_ERR_DEPTH_ZERO_SELF_SIGNED_CERT == 18
X509_V_ERR_SELF_SIGNED_CERT_IN_CHAIN == 19
X509_V_ERR_UNABLE_TO_GET_ISSUER_CERT_LOCALLY == 20
X509_V_ERR_CERT_REVOKED == 23
PKCS7_R_DIGEST_FAILURE == 101
PKCS7_R_SIGNATURE_FAILURE == 105
RSA_R_DIGEST_DOES_NOT_MATCH == 158
RSA_R_BAD_SIGNATURE == 104

(***************************************************************************)
(* Certificates and certificate infos.  A certificate is named by its      *)
(* subject; a pointer that may be null is a sequence of length 0 or 1.     *)
(***************************************************************************)
\* PDFPublicKeySignatureHandler::getCertificateInfo(X509*)
getCertificateInfo(certificate) == [ certificateData |-> certificate ]

RECURSIVE addCertificateInfos(_, _)
addCertificateInfos(result, stack) ==
    IF stack = <<>> THEN result
    ELSE addCertificateInfos(addCertificateInfo(result, getCertificateInfo(Head(stack))),
                             Tail(stack))

\* The flags set on the validation context before X509_verify_cert.
VerifyFlags(parameters) ==
    IF parameters.ignoreExpirationDate
    THEN { "X509_V_FLAG_TRUSTED_FIRST", "X509_V_FLAG_NO_CHECK_TIME" }
    ELSE { "X509_V_FLAG_TRUSTED_FIRST" }

\* X509_verify_cert then X509_STORE_CTX_get_error: the outcome the library
\* gives for this signer; an expired certificate passes when time checks are off.
X509_verify_cert(validation, flags) ==
    IF /\ validation.verifyCert <= 0
       /\ validation.ctxError = X509_V_ERR_CERT_HAS_EXPIRED
       /\ "X509_V_FLAG_NO_CHECK_TIME" \in flags
    THEN [ verificationResult |-> 1, error |-> X509_V_OK ]
    ELSE [ verificationResult |-> validation.verifyCert, error |-> validation.ctxError ]

\* switch (error) of verifyCertificate and of verifyRSACertificate
addVerifyCertError(result, error) ==
    CASE error = X509_V_OK -> result
      [] error = X509_V_ERR_CERT_HAS_EXPIRED -> addCertificateExpiredError(result)
      [] error = X509_V_ERR_DEPTH_ZERO_SELF_SIGNED_CERT -> addCertificateSelfSignedError(result)
      [] error = X509_V_ERR_SELF_SIGNED_CERT_IN_CHAIN ->
            addCertificateSelfSignedInChainError(result)
      [] error \in { X509_V_ERR_UNABLE_TO_GET_ISSUER_CERT,
                     X509_V_ERR_UNABLE_TO_GET_ISSUER_CERT_LOCALLY } ->
            addCertificateTrustedNotFoundError(result)
      [] error = X509_V_ERR_CERT_REVOKED -> addCertificateRevokedError(result)
      [] OTHER -> addCertificateOtherError(result, error)

\* Chain validation of one signer and the certificate infos it appends:
\* all presented certificates on failure, the validated chain on success.
VerifyChain(result, validation, presented, parameters) ==
    LET outcome == X509_verify_cert(validation, VerifyFlags(parameters))
    IN  IF outcome.verificationResult <= 0
        THEN addCertificateInfos(addVerifyCertError(result, outcome.error), presented)
        ELSE addCertificateInfos(result, validation.chain)

(***************************************************************************)
(* PDFPublicKeySignatureHandler::verifyCertificate (PKCS#7 engines)        *)
(***************************************************************************)
\* PDFPublicKeySignatureHandler::getCertificates
getCertificates(pkcs7) == pkcs7.cert

\* The loop over the signer infos, from signer info i on; a signer that is
\* missing or whose context cannot be set up leaves the loop.
RECURSIVE VerifyCertificateSigners(_, _, _, _)
VerifyCertificateSigners(result, pkcs7, i, parameters) ==
    IF i > Len(pkcs7.signer_info) THEN result
    ELSE LET signerInfoValue == pkcs7.signer_info[i]
         IN  IF signerInfoValue.signer = <<>>
             THEN addCertificateMissingError(result)
             ELSE IF ~signerInfoValue.ctxInit
             THEN addCertificateGenericError(result)
             ELSE IF ~signerInfoValue.setPurpose
             THEN addCertificateGenericError(result)
             ELSE VerifyCertificateSigners(
                     VerifyChain(result, signerInfoValue, getCertificates(pkcs7)[1],
                                 parameters),
                     pkcs7, i + 1, parameters)

\* Certificate_OK is set at the end of the certificate phase.
SetCertificateOK(result) ==
    IF ~hasCertificateError(result) THEN setFlag(result, "Certificate_OK") ELSE result

verifyCertificate(result, signature, parameters) ==
    LET parsed == signature.contents.pkcs7
        checked ==
            IF parsed # <<>>
            THEN IF Len(parsed[1].signer_info) > 0 /\ getCertificates(parsed[1]) # <<>>
                 THEN VerifyCertificateSigners(result, parsed[1], 1, parameters)
                 ELSE addNoSignaturesError(result)
            ELSE addInvalidCertificateError(result)
    IN  SetCertificateOK(checked)

(***************************************************************************)
(* PDFPublicKeySignatureHandler::verifySignature (PKCS#7 engines)          *)
(***************************************************************************)
\* The error queue of the calling thread, kept by the crypto library: the
\* reason codes of the errors its calls have put there, earliest first.
\* ERR_GET_REASON(ERR_get_error()): the reason of the earliest error of the
\* queue, 0 when the queue is empty.
ERR_get_error(queue) == IF queue = << >> THEN 0 ELSE Head(queue)

\* The queue after ERR_get_error, which removes the error it returns.
ErrorRemoved(queue) == IF queue = << >> THEN << >> ELSE Tail(queue)

\* What a d2i_ function puts into the queue when the bytes do not parse
\* (ASN1_R_WRONG_TAG).
D2iErrors == << 168 >>

\* The queue after d2i_ was called on bytes and delivered parsed.
AfterD2i(parsed, queue) == IF parsed = << >> THEN queue \o D2iErrors ELSE queue

\* The queue after verifyCertificate, which calls d2i_PKCS7 and reads no
\* error.
verifyCertificateErrors(signature, queue) == AfterD2i(signature.contents.pkcs7, queue)

\* switch (reason) after a failed PKCS7_signatureVerify
addSignatureVerifyError(result, reason) ==
    IF reason = PKCS7_R_DIGEST_FAILURE
    THEN addSignatureDigestFailureError(result)
    ELSE addSignatureDataOtherError(result)

\* The loop over the signer infos, from signer info i on; a missing signer
\* certificate leaves the loop, a failed verification does not.
\* PKCS7_signatureVerify puts the errors of a failure into queue; the
\* reason is then read from the queue.
RECURSIVE VerifySignatureSigners(_, _, _, _)
VerifySignatureSigners(result, pkcs7, i, queue) ==
    IF i > Len(pkcs7.signer_info) THEN result
    ELSE LET signerInfoValue == pkcs7.signer_info[i]
         IN  IF signerInfoValue.signer = <<>>
             THEN addSignatureCertificateMissingError(result)
             ELSE IF signerInfoValue.signatureVerify <= 0
             THEN VerifySignatureSigners(
                     addSignatureVerifyError(result,
                         ERR_get_error(queue \o signerInfoValue.errors)),
                     pkcs7, i + 1, ErrorRemoved(queue \o signerInfoValue.errors))
             ELSE VerifySignatureSigners(result, pkcs7, i + 1, queue)

\* The queue after the loop over the signer infos.
RECURSIVE SignersErrors(_, _, _)
SignersErrors(pkcs7, i, queue) ==
    IF i > Len(pkcs7.signer_info) THEN queue
    ELSE LET signerInfoValue == pkcs7.signer_info[i]
         IN  IF signerInfoValue.signer = <<>>
             THEN queue
             ELSE IF signerInfoValue.signatureVerify <= 0
             THEN SignersErrors(pkcs7, i + 1, ErrorRemoved(queue \o signerInfoValue.errors))
             ELSE SignersErrors(pkcs7, i + 1, queue)

\* An end of the signature phase that also sets OK when the signature is
\* valid, before validate() is called.
SetSignatureOK_AndOK(result) ==
    IF ~hasSignatureError(result)
    THEN setFlag(setFlag(result, "Signature_OK"), "OK")
    ELSE result

\* An end of the signature phase that refuses Signature_OK to a result
\* that carries a certificate error.
SetSignatureOK_UnlessCertificateError(result) ==
    IF ~hasSignatureError(result) /\ ~hasCertificateError(result)
    THEN setFlag(result, "Signature_OK")
    ELSE result

\* Signature_OK is set at the end of the signature phase.
SetSignatureOK(result) ==
    IF ~hasSignatureError(result) THEN setFlag(result, "Signature_OK") ELSE result

\* The virtual getSignedDataBuffer of the handler class.
SignedDataBufferOf(class, result, signature, sourceData, bioAlloc) ==
    IF class = "PDFSignatureHandler_adbe_pkcs7_sha1"
    THEN getSignedDataBuffer_sha1(result, signature, sourceData, bioAlloc)
    ELSE getSignedDataBuffer(result, signature, sourceData, bioAlloc)

\* verifySignature once Contents has parsed and getSignedDataBuffer returned.
VerifyWithBuffer(inputBuffer, pkcs7, queue) ==
    IF inputBuffer.bio
    THEN IF pkcs7.dataInit
         THEN IF Len(pkcs7.signer_info) > 0 /\ getCertificates(pkcs7) # <<>>
              THEN VerifySignatureSigners(inputBuffer.result, pkcs7, 1, queue)
              ELSE addSignatureNoSignaturesFoundError(inputBuffer.result)
         ELSE addInvalidSignatureError(inputBuffer.result)
    ELSE inputBuffer.result

\* queue is the error queue of the thread when verifySignature is called.
verifySignature(class, result, signature, sourceData, bioAlloc, queue) ==
    SetSignatureOK(
        IF signature.contents.pkcs7 # <<>>
        THEN VerifyWithBuffer(
                SignedDataBufferOf(class, result, signature, sourceData, bioAlloc),
                signature.contents.pkcs7[1], queue)
        ELSE addInvalidSignatureError(result))

\* The queue after verifySignature once Contents has parsed.
ErrorsWithBuffer(bio, pkcs7, queue) ==
    IF /\ bio
       /\ pkcs7.dataInit
       /\ Len(pkcs7.signer_info) > 0
       /\ getCertificates(pkcs7) # <<>>
    THEN SignersErrors(pkcs7, 1, queue)
    ELSE queue

\* The queue after verifySignature.
verifySignatureErrors(class, signature, sourceData, bioAlloc, queue) ==
    IF signature.contents.pkcs7 # <<>>
    THEN ErrorsWithBuffer(
            SignedDataBufferOf(class, EmptyResult, signature, sourceData, bioAlloc).bio,
            signature.contents.pkcs7[1], queue)
    ELSE AfterD2i(signature.contents.pkcs7, queue)

(***************************************************************************)
(* PDFSignatureHandler_adbe_pkcs7_rsa_sha1 (legacy RSA engine)             *)
(***************************************************************************)
\* createCertificate(index), index counted from 0: null past the end of the
\* Cert array and for an entry that does not parse.
createCertificate(signature, index) ==
    IF index < Len(signature.certificates)
    THEN signature.certificates[index + 1].x509
    ELSE <<>>

\* The certificates the loop pushes after the first one: entries 1, 2, ...
\* up to the first one that createCertificate does not deliver.
RECURSIVE PushedCertificates(_, _)
PushedCertificates(signature, i) ==
    IF createCertificate(signature, i) = <<>> THEN <<>>
    ELSE << createCertificate(signature, i)[1] >> \o PushedCertificates(signature, i + 1)

\* What a read of the stack yields.  Every certificate pushed after the
\* first has been freed right after the push; freedReads tells what its
\* memory holds when it is read back: "intact" or "garbage".
StackSubjects(certificate, pushed, freedReads) ==
    << certificate.subject >>
    \o [ i \in 1..Len(pushed) |->
           IF freedReads = "intact" THEN pushed[i].subject ELSE "freed" ]

\* Chain validation over a stack with freed entries that read as garbage
\* does not follow the certificates: it fails on the broken entry.
ValidationOf(certificate, pushed, freedReads) ==
    IF pushed # <<>> /\ freedReads = "garbage"
    THEN [ certificate EXCEPT !.verifyCert = 0,
                              !.ctxError = X509_V_ERR_CERT_SIGNATURE_FAILURE ]
    ELSE certificate

verifyRSACertificate(result, signature, parameters, freedReads) ==
    LET first == createCertificate(signature, 0)
        certificate == first[1]
        pushed == PushedCertificates(signature, 1)
        certificates == StackSubjects(certificate, pushed, freedReads)
        afterInit == IF ~certificate.ctxInit
                     THEN addCertificateGenericError(result) ELSE result
        afterPurpose == IF ~certificate.setPurpose
                        THEN addCertificateGenericError(afterInit) ELSE afterInit
        checked ==
            IF first # <<>>
            THEN IF ~hasCertificateError(afterPurpose)
                 THEN VerifyChain(afterPurpose,
                                  ValidationOf(certificate, pushed, freedReads),
                                  certificates, parameters)
                 ELSE afterPurpose
            ELSE addInvalidCertificateError(result)
    IN  SetCertificateOK(checked)

\* The queue after createCertificate(index): d2i_X509 is called on an
\* entry of the Cert array, not past its end.
createCertificateErrors(signature, index, queue) ==
    IF index < Len(signature.certificates)
    THEN AfterD2i(signature.certificates[index + 1].x509, queue)
    ELSE queue

\* The queue after verifyRSACertificate: createCertificate is called until
\* it delivers no certificate; no error is read.
verifyRSACertificateErrors(signature, queue) ==
    IF createCertificate(signature, 0) = << >>
    THEN createCertificateErrors(signature, 0, queue)
    ELSE createCertificateErrors(signature,
                                 1 + Len(PushedCertificates(signature, 1)), queue)

\* getMessageDigestAlgorithm: RSA_public_decrypt, then d2i_X509_SIG
getMessageDigestAlgorithm(encryptedString) ==
    IF encryptedString.decrypt <= 0 THEN FALSE
    ELSE encryptedString.x509_sig

\* getMessageDigest: the algorithm, then EVP_get_digestbynid
getMessageDigest(encryptedString) ==
    IF ~getMessageDigestAlgorithm(encryptedString) THEN FALSE
    ELSE encryptedString.md

\* switch (errorCode) after RSA_verify returned 0
addRSAVerifyError(result, errorCode) ==
    IF errorCode = RSA_R_DIGEST_DOES_NOT_MATCH
    THEN addSignatureDigestFailureError(result)
    ELSE addSignatureDataOtherError(result)

\* The outcome of RSA_verify is looked at only when it is 0.
CheckRSAVerify(result, verifyValue, errorCode) ==
    IF verifyValue = 0 THEN addRSAVerifyError(result, errorCode) ELSE result

\* verifyRSASignature once the RSA key was obtained and getSignedDataBuffer
\* returned; parsed is what d2i_ASN1_OCTET_STRING makes of Contents.
\* RSA_verify puts the errors of a failure into queue; the reason is read
\* from the queue when RSA_verify returned 0.
VerifyRSAWithBuffer(bio, parsed, queue) ==
    IF bio.bio
    THEN IF parsed # <<>>
         THEN IF ~getMessageDigest(parsed[1])
              THEN addSignatureDataOtherError(bio.result)
              ELSE SetSignatureOK(CheckRSAVerify(bio.result, parsed[1].rsaVerify,
                                                 ERR_get_error(queue \o parsed[1].errors)))
         ELSE SetSignatureOK(addSignatureDataOtherError(bio.result))
    ELSE SetSignatureOK(bio.result)

\* queue is the error queue of the thread when verifyRSASignature is called.
verifyRSASignature(result, signature, sourceData, bioAlloc, queue) ==
    IF createCertificate(signature, 0) = <<>>
    THEN addSignatureCertificateMissingError(result)
    ELSE IF ~createCertificate(signature, 0)[1].pubkey
    THEN addSignatureCertificateMissingError(result)
    ELSE IF ~createCertificate(signature, 0)[1].rsa
    THEN addSignatureCertificateMissingError(result)
    ELSE VerifyRSAWithBuffer(getSignedDataBuffer(result, signature, sourceData, bioAlloc),
                             signature.contents.octetString, queue)

\* The queue after RSA_verify and the read of its error.
AfterRSAVerify(verifyValue, queue) ==
    IF verifyValue = 0 THEN ErrorRemoved(queue) ELSE queue

\* The queue after verifyRSASignature once the RSA key was obtained.
RSAErrorsWithBuffer(bio, parsed, queue) ==
    IF bio
    THEN IF parsed # <<>>
         THEN IF ~getMessageDigest(parsed[1])
              THEN queue
              ELSE AfterRSAVerify(parsed[1].rsaVerify, queue \o parsed[1].errors)
         ELSE AfterD2i(parsed, queue)
    ELSE queue

\* The queue after verifyRSASignature.
verifyRSASignatureErrors(signature, sourceData, bioAlloc, queue) ==
    IF createCertificate(signature, 0) = <<>>
    THEN createCertificateErrors(signature, 0, queue)
    ELSE IF ~createCertificate(signature, 0)[1].pubkey \/ ~createCertificate(signature, 0)[1].rsa
    THEN queue
    ELSE RSAErrorsWithBuffer(
            getSignedDataBuffer(EmptyResult, signature, sourceData, bioAlloc).bio,
            signature.contents.octetString, queue)

(***************************************************************************)
(* PDFSignatureHandler::createHandler                                      *)
(***************************************************************************)
\* A createHandler without the branch of the legacy RSA engine.
createHandler_NoRSA(subfilter) ==
    IF subfilter = "adbe.pkcs7.detached"
    THEN << "PDFSignatureHandler_adbe_pkcs7_detached" >>
    ELSE IF subfilter = "adbe.pkcs7.sha1"
    THEN << "PDFSignatureHandler_adbe_pkcs7_sha1" >>
    ELSE << >>

\* The class of the handler created for a subfilter; <<>> is nullptr.
createHandler(subfilter) ==
    IF subfilter = "adbe.pkcs7.detached"
    THEN << "PDFSignatureHandler_adbe_pkcs7_detached" >>
    ELSE IF subfilter = "adbe.pkcs7.sha1"
    THEN << "PDFSignatureHandler_adbe_pkcs7_sha1" >>
    ELSE IF subfilter = "adbe.x509.rsa_sha1"
    THEN << "PDFSignatureHandler_adbe_pkcs7_rsa_sha1" >>
    ELSE << >>

\* The result verifySignatures builds for a field without handler.
NoHandlerResult(signatureField) ==
    addNoHandlerError(NewResult(signatureField.reference, signatureField.name),
                      signatureField.signature.subfilter)

\* An initializeResult that sets the reference and forgets the name.
initializeResult_NoName(result, signatureField) ==
    [ result EXCEPT !.signatureFieldReference = signatureField.reference ]

\* PDFPublicKeySignatureHandler::initializeResult
initializeResult(result, signatureField) ==
    [ result EXCEPT !.signatureFieldReference = signatureField.reference,
                    !.signatureFieldQualifiedName = signatureField.name ]

\* The fields the visitor passed to PDFForm::apply collects.
RECURSIVE getSignatureFields(_)
getSignatureFields(fields) ==
    IF fields = <<>> THEN <<>>
    ELSE IF Head(fields).fieldType = "Signature"
    THEN << Head(fields) >> \o getSignatureFields(Tail(fields))
    ELSE getSignatureFields(Tail(fields))

(***************************************************************************)
(* The inputs: signature dictionaries, with what the crypto library        *)
(* returns for their Contents and certificates, forms, files, calls.       *)
(***************************************************************************)
SubjectOfSigner(i) == "signer" \o ToString(i)

GoodValidation ==
    [ found |-> TRUE, ctxInit |-> TRUE, setPurpose |-> TRUE,
      verifyCert |-> 1, ctxError |-> X509_V_OK ]

VerifyErrors ==
    { X509_V_OK, X509_V_ERR_UNABLE_TO_GET_ISSUER_CERT, X509_V_ERR_CERT_SIGNATURE_FAILURE,
      X509_V_ERR_CERT_HAS_EXPIRED, X509_V_ERR_DEPTH_ZERO_SELF_SIGNED_CERT,
      X509_V_ERR_SELF_SIGNED_CERT_IN_CHAIN, X509_V_ERR_UNABLE_TO_GET_ISSUER_CERT_LOCALLY,
      X509_V_ERR_CERT_REVOKED }

Expired == [ GoodValidation EXCEPT !.verifyCert = 0, !.ctxError = X509_V_ERR_CERT_HAS_EXPIRED ]

\* Outcomes of the certificate phase for one signer.
Validations ==
    { GoodValidation,
      [ GoodValidation EXCEPT !.found = FALSE ],
      [ GoodValidation EXCEPT !.ctxInit = FALSE ],
      [ GoodValidation EXCEPT !.setPurpose = FALSE ],
      [ GoodValidation EXCEPT !.verifyCert = -1,
                              !.ctxError = X509_V_ERR_CERT_SIGNATURE_FAILURE ] }
    \cup { [ GoodValidation EXCEPT !.verifyCert = 0, !.ctxError = e ] : e \in VerifyErrors }

GoodVerify == [ signatureVerify |-> 1, errReason |-> 0, errors |-> << >> ]

DigestFailure ==
    [ signatureVerify |-> 0, errReason |-> PKCS7_R_DIGEST_FAILURE,
      errors |-> << PKCS7_R_DIGEST_FAILURE >> ]

\* Outcomes of PKCS7_signatureVerify for one signer.
SignatureVerifies ==
    { GoodVerify, DigestFailure,
      [ signatureVerify |-> 0, errReason |-> PKCS7_R_SIGNATURE_FAILURE,
        errors |-> << PKCS7_R_SIGNATURE_FAILURE >> ],
      [ signatureVerify |-> 0, errReason |-> PKCS7_R_SIGNATURE_FAILURE,
        errors |-> << RSA_R_BAD_SIGNATURE, PKCS7_R_SIGNATURE_FAILURE >> ],
      [ signatureVerify |-> -1, errReason |-> PKCS7_R_SIGNATURE_FAILURE,
        errors |-> << PKCS7_R_SIGNATURE_FAILURE >> ] }

SignerOutcomes ==
    { << v, GoodVerify >> : v \in Validations }
    \cup { << GoodValidation, w >> : w \in SignatureVerifies }
    \cup { << Expired, DigestFailure >> }

SignerInfo(i, outcome) ==
    [ signer |-> IF outcome[1].found THEN << SubjectOfSigner(i) >> ELSE << >>,
      ctxInit |-> outcome[1].ctxInit,
      setPurpose |-> outcome[1].setPurpose,
      verifyCert |-> outcome[1].verifyCert,
      ctxError |-> outcome[1].ctxError,
      chain |-> << SubjectOfSigner(i), "ca" >>,
      signatureVerify |-> outcome[2].signatureVerify,
      errReason |-> outcome[2].errReason,
      errors |-> outcome[2].errors ]

SignerInfos(n) ==
    { [ i \in 1..n |-> SignerInfo(i, outcomes[i]) ] : outcomes \in [ 1..n -> SignerOutcomes ] }

\* The certificate bag of a container with n signer infos.
Bag(n) == [ i \in 1..n |-> SubjectOfSigner(i) ] \o << "ca" >>

Pkcs7(signer_info) ==
    [ cert |-> << Bag(Len(signer_info)) >>, signer_info |-> signer_info, dataInit |-> TRUE ]

GoodPkcs7 == Pkcs7(<< SignerInfo(1, << GoodValidation, GoodVerify >>) >>)

\* The containers with up to maxSigners signer infos.
Pkcs7s(maxSigners) ==
    { Pkcs7(signer_info) : signer_info \in UNION { SignerInfos(n) : n \in 0..maxSigners } }
    \cup { [ GoodPkcs7 EXCEPT !.cert = << >> ], [ GoodPkcs7 EXCEPT !.dataInit = FALSE ] }

\* Contents: the bytes and what d2i_PKCS7 and d2i_ASN1_OCTET_STRING make of them.
ContentsBytes == << 171 >>

Pkcs7Contents(pkcs7) == [ data |-> ContentsBytes, pkcs7 |-> << pkcs7 >>, octetString |-> << >> ]

GarbageContents == [ data |-> ContentsBytes, pkcs7 |-> << >>, octetString |-> << >> ]

GoodOctetString ==
    [ decrypt |-> 35, x509_sig |-> TRUE, md |-> TRUE, rsaVerify |-> 1, errReason |-> 0,
      errors |-> << >> ]

OctetStrings ==
    { GoodOctetString,
      [ GoodOctetString EXCEPT !.decrypt = 0 ],
      [ GoodOctetString EXCEPT !.decrypt = -1 ],
      [ GoodOctetString EXCEPT !.x509_sig = FALSE ],
      [ GoodOctetString EXCEPT !.md = FALSE ],
      [ GoodOctetString EXCEPT !.rsaVerify = 0, !.errReason = RSA_R_DIGEST_DOES_NOT_MATCH,
                               !.errors = << RSA_R_DIGEST_DOES_NOT_MATCH >> ],
      [ GoodOctetString EXCEPT !.rsaVerify = 0, !.errReason = RSA_R_BAD_SIGNATURE,
                               !.errors = << RSA_R_BAD_SIGNATURE >> ],
      [ GoodOctetString EXCEPT !.rsaVerify = -1, !.errReason = RSA_R_BAD_SIGNATURE,
                               !.errors = << RSA_R_BAD_SIGNATURE >> ] }

OctetContents(octetString) ==
    [ data |-> ContentsBytes, pkcs7 |-> << >>, octetString |-> << octetString >> ]

\* A certificate of the Cert array of the legacy RSA engine.
Certificate(i, validation, pubkey, rsa) ==
    [ subject |-> SubjectOfSigner(i), pubkey |-> pubkey, rsa |-> rsa,
      ctxInit |-> validation.ctxInit, setPurpose |-> validation.setPurpose,
      verifyCert |-> validation.verifyCert, ctxError |-> validation.ctxError,
      chain |-> << SubjectOfSigner(i), "ca" >> ]

GoodCertificate(i) == Certificate(i, GoodValidation, TRUE, TRUE)

LeafCertificates ==
    { Certificate(1, v, TRUE, TRUE) : v \in Validations \ { [ GoodValidation EXCEPT !.found = FALSE ] } }
    \cup { Certificate(1, GoodValidation, FALSE, FALSE),
           Certificate(1, GoodValidation, TRUE, FALSE),
           [ Certificate(1, GoodValidation, TRUE, TRUE)
               EXCEPT !.ctxInit = FALSE, !.setPurpose = FALSE ] }

\* Cert arrays: a leaf followed by up to maxCerts - 1 certificates, the
\* last of which may fail to parse; the empty array; a leaf that fails to parse.
CertArrays(leaf, maxCerts) ==
    { << [ x509 |-> << leaf >> ] >>
        \o [ i \in 1..n |-> [ x509 |-> IF i = n /\ broken THEN << >>
                                       ELSE << GoodCertificate(i + 1) >> ] ] :
        n \in 0..(maxCerts - 1), broken \in BOOLEAN }

FileBytes == << "p", "q", "r", "s", "t", "u", "v", "w" >>

\* The file of n distinct bytes.
FileOfLen(n) == SubSeq(FileBytes, 1, n)

FullFile == FileOfLen(MaxFileLen)

WholeFile(sourceData) == << [ offset |-> 0, size |-> Len(sourceData) ] >>

Signature(subfilter, contents, byteRanges, certificates) ==
    [ subfilter |-> subfilter, contents |-> contents,
      byteRanges |-> byteRanges, certificates |-> certificates ]

Pkcs7Subfilters == { "adbe.pkcs7.detached", "adbe.pkcs7.sha1" }

UnknownSubfilters == { "adbe.foo.unknown", "", "ETSI.CAdES.detached", "adbe.pkcs7.Detached" }

\* Byte range lists of the engine runs: a few ranges inside and outside the file.
EngineByteRanges ==
    { [ offset |-> 0, size |-> 0 ], [ offset |-> 0, size |-> 1 ],
      [ offset |-> 1, size |-> MaxFileLen - 1 ], [ offset |-> 0, size |-> MaxFileLen ],
      [ offset |-> 1, size |-> MaxFileLen ], [ offset |-> -1, size |-> 1 ],
      [ offset |-> MaxFileLen + 1, size |-> -1 ], [ offset |-> MaxPDFInteger, size |-> 1 ] }

\* The lists of up to maxRanges of the given byte ranges.
ByteRangeLists(byteRanges, maxRanges) ==
    UNION { [ 1..n -> byteRanges ] : n \in 0..maxRanges }

\* Signatures whose certificates and signers vary, over the whole file.
CertificateSignatures(maxSigners, maxCerts) ==
    { Signature(subfilter, Pkcs7Contents(pkcs7), WholeFile(FullFile), << >>) :
        subfilter \in Pkcs7Subfilters, pkcs7 \in Pkcs7s(maxSigners) }
    \cup { Signature(subfilter, GarbageContents, WholeFile(FullFile), << >>) :
             subfilter \in Pkcs7Subfilters }
    \cup { Signature("adbe.x509.rsa_sha1", OctetContents(GoodOctetString),
                     WholeFile(FullFile), certificates) :
             certificates \in UNION { CertArrays(leaf, maxCerts) : leaf \in LeafCertificates } }
    \cup { Signature("adbe.x509.rsa_sha1", OctetContents(octetString),
                     WholeFile(FullFile), certificates) :
             octetString \in OctetStrings,
             certificates \in { << [ x509 |-> << GoodCertificate(1) >> ] >>,
                                << [ x509 |-> << GoodCertificate(1) >> ], [ x509 |-> << >> ] >> } }
    \cup { Signature("adbe.x509.rsa_sha1", contents, WholeFile(FullFile), certificates) :
             contents \in { GarbageContents, OctetContents(GoodOctetString) },
             certificates \in { << >>, << [ x509 |-> << >> ] >> } }

\* Signatures whose byte ranges vary, with a container that verifies, one
\* whose digest fails and one that does not parse.
ByteRangeSignatures(maxRanges) ==
    { Signature(subfilter, contents, byteRanges, << >>) :
        subfilter \in Pkcs7Subfilters,
        contents \in { Pkcs7Contents(GoodPkcs7),
                       Pkcs7Contents(Pkcs7(<< SignerInfo(1, << Expired, DigestFailure >>) >>)),
                       GarbageContents },
        byteRanges \in ByteRangeLists(EngineByteRanges, maxRanges) }
    \cup { Signature("adbe.x509.rsa_sha1", OctetContents(GoodOctetString), byteRanges,
                     certificates) :
             byteRanges \in ByteRangeLists(EngineByteRanges, maxRanges),
             certificates \in { << [ x509 |-> << GoodCertificate(1) >> ] >>, << >> } }

Field(reference, fieldType, signature) ==
    [ reference |-> reference, name |-> "Signature" \o ToString(reference),
      fieldType |-> fieldType, signature |-> signature ]

Parameters(enableVerification, ignoreExpirationDate) ==
    [ enableVerification |-> enableVerification,
      ignoreExpirationDate |-> ignoreExpirationDate ]

NoCertificateData == [ x509 |-> << >> ]

VerifySignaturesCall(kind, fields, sourceData, parameters, bioAlloc) ==
    [ op |-> "verifySignatures", form |-> [ kind |-> kind, fields |-> fields ],
      sourceData |-> sourceData, parameters |-> parameters, bioAlloc |-> bioAlloc,
      certificateData |-> NoCertificateData ]

GetCertificateInfoCall(certificateData) ==
    [ op |-> "getCertificateInfo", form |-> [ kind |-> "None", fields |-> << >> ],
      sourceData |-> << >>, parameters |-> Parameters(FALSE, FALSE), bioAlloc |-> TRUE,
      certificateData |-> certificateData ]

NoCall ==
    [ op |-> "none", form |-> [ kind |-> "None", fields |-> << >> ],
      sourceData |-> << >>, parameters |-> Parameters(FALSE, FALSE), bioAlloc |-> TRUE,
      certificateData |-> NoCertificateData ]

\* The signatures of the forms with several fields and of the threads.
SampleSignatures ==
    { Signature("adbe.pkcs7.detached", Pkcs7Contents(GoodPkcs7), WholeFile(FullFile), << >>),
      Signature("adbe.pkcs7.sha1",
                Pkcs7Contents(Pkcs7(<< SignerInfo(1, << Expired, DigestFailure >>) >>)),
                WholeFile(FullFile), << >>),
      Signature("adbe.x509.rsa_sha1", OctetContents(GoodOctetString), WholeFile(FullFile),
                << [ x509 |-> << GoodCertificate(1) >> ] >>) }
    \cup { Signature(subfilter, GarbageContents, << >>, << >>) :
             subfilter \in UnknownSubfilters }

SampleFieldKinds ==
    { << "Signature", signature >> : signature \in SampleSignatures }
    \cup { << "Text", Signature("", GarbageContents, << >>, << >>) >> }

\* The forms of up to maxFields fields.
SampleForms(maxFields) ==
    UNION { { [ i \in 1..n |-> Field(i, kinds[i][1], kinds[i][2]) ] :
                kinds \in [ 1..n -> SampleFieldKinds ] } : n \in 0..maxFields }

FormKinds == { "AcroForm", "XFA", "None" }

\* One signature of each engine, over the whole of sourceData; two of them
\* with an expired certificate.
ExpirationSignatures(sourceData) ==
    { Signature("adbe.pkcs7.detached",
                Pkcs7Contents(Pkcs7(<< SignerInfo(1, << Expired, GoodVerify >>) >>)),
                WholeFile(sourceData), << >>),
      Signature("adbe.pkcs7.sha1", Pkcs7Contents(GoodPkcs7), WholeFile(sourceData), << >>),
      Signature("adbe.x509.rsa_sha1", OctetContents(GoodOctetString), WholeFile(sourceData),
                << [ x509 |-> << Certificate(1, Expired, TRUE, TRUE) >> ] >>) }

\* Calls of verifySignatures on a form with one signature field.
SingleFieldCalls(maxSigners, maxCerts, maxRanges) ==
    { VerifySignaturesCall("AcroForm", << Field(1, "Signature", signature) >>, FullFile,
                           Parameters(TRUE, FALSE), TRUE) :
        signature \in CertificateSignatures(maxSigners, maxCerts)
                      \cup ByteRangeSignatures(maxRanges) }
    \cup UNION { { VerifySignaturesCall("XFA", << Field(1, "Signature", signature) >>,
                                        sourceData, Parameters(TRUE, TRUE), bioAlloc) :
                     signature \in ExpirationSignatures(sourceData), bioAlloc \in BOOLEAN } :
                 sourceData \in { << >>, FullFile } }

\* Calls of verifySignatures on forms with any number of fields.
FormCalls(maxFields) ==
    { VerifySignaturesCall(kind, fields, FullFile, Parameters(enableVerification, FALSE), TRUE) :
        kind \in FormKinds, enableVerification \in BOOLEAN, fields \in SampleForms(maxFields) }


\* Signatures of the forms with two signature fields: a self-signed
\* certificate with a signature that verifies, a valid certificate with a
\* digest failure (for either PKCS#7 engine), Contents that do not parse.
PairSignatures ==
    { Signature("adbe.pkcs7.detached",
                Pkcs7Contents(Pkcs7(<< SignerInfo(1,
                    << [ GoodValidation EXCEPT
                           !.verifyCert = 0,
                           !.ctxError = X509_V_ERR_DEPTH_ZERO_SELF_SIGNED_CERT ],
                       GoodVerify >>) >>)),
                WholeFile(FullFile), << >>),
      Signature("adbe.pkcs7.detached", GarbageContents, WholeFile(FullFile), << >>) }
    \cup { Signature(subfilter,
                     Pkcs7Contents(Pkcs7(<< SignerInfo(1, << GoodValidation, DigestFailure >>) >>)),
                     WholeFile(FullFile), << >>) : subfilter \in Pkcs7Subfilters }

\* Calls of verifySignatures on a form with two signature fields.
PairCalls ==
    { VerifySignaturesCall("AcroForm",
                           << Field(1, "Signature", first), Field(2, "Signature", second) >>,
                           FullFile, Parameters(TRUE, FALSE), TRUE) :
        first \in PairSignatures, second \in PairSignatures }

(***************************************************************************)
(* State.                                                                  *)
(***************************************************************************)
VARIABLES
    call,             \* per thread: the operation it runs and its arguments
    pc,               \* per thread: its position
    signatureFields,  \* per thread: the fields collected by verifySignatures
    index,            \* per thread: the field the loop of verifySignatures is at
    handler,          \* per thread: the handler created for the field, <<>> if none
    result,           \* per thread: the result verify() builds
    results,          \* per thread: the vector verifySignatures returns
    info,             \* per thread: what getCertificateInfo returns
    errorQueue,       \* per thread: the error queue of the crypto library
    mutexOwner,       \* s_globalOpenSSLMutex: the thread holding it, 0 if free
    mutexCount,       \* s_globalOpenSSLMutex: how many times its owner holds it
    asmIn,            \* input of a run of the byte-range assembler alone
    asmOut,           \* what that run returned, <<>> before it
    store,            \* m_certificates of a certificate store
    stream,           \* the QDataStream the store was written to, <<>> before
    loaded,           \* m_certificates of a store read from the stream, <<>> before
    lastAdd,          \* the last call of add on the store, <<>> before: its
                      \* arguments, m_certificates before it, what it returned
    adds              \* how many calls of add the store has received

vars == << call, pc, signatureFields, index, handler, result, results, info, errorQueue,
           mutexOwner, mutexCount, asmIn, asmOut, store, stream, loaded, lastAdd, adds >>

threadVars == << call, pc, signatureFields, index, handler, result, results, info, errorQueue,
                 mutexOwner, mutexCount >>

asmVars == << asmIn, asmOut >>

storeVars == << store, stream, loaded, lastAdd, adds >>

\* A new certificate store, nothing written and nothing read.
InitStore ==
    /\ store = << >>
    /\ stream = << >>
    /\ loaded = << >>
    /\ lastAdd = << >>
    /\ adds = 0

StartOf(c) ==
    IF c.op = "verifySignatures" THEN "verifySignatures"
    ELSE IF c.op = "getCertificateInfo" THEN "getCertificateInfo"
    ELSE "idle"

NoAsmInput ==
    [ sourceData |-> << >>, signature |-> Signature("", GarbageContents, << >>, << >>),
      bioAlloc |-> TRUE ]

InitThreads(calls) ==
    /\ call = calls
    /\ pc = [ t \in Threads |-> StartOf(calls[t]) ]
    /\ signatureFields = [ t \in Threads |-> << >> ]
    /\ index = [ t \in Threads |-> 0 ]
    /\ handler = [ t \in Threads |-> << >> ]
    /\ result = [ t \in Threads |-> EmptyResult ]
    /\ results = [ t \in Threads |-> << >> ]
    /\ info = [ t \in Threads |-> << >> ]
    /\ errorQueue = [ t \in Threads |-> << >> ]
    /\ mutexOwner = 0
    /\ mutexCount = 0

\* One thread calls verifySignatures; the other threads do nothing.
Init ==
    /\ \E c \in SingleFieldCalls(MaxSigners, MaxCerts, MaxRanges) \cup FormCalls(MaxFields)
                 \cup PairCalls :
         InitThreads([ t \in Threads |-> IF t = 1 THEN c ELSE NoCall ])
    /\ asmIn = NoAsmInput
    /\ asmOut = << >>
    /\ InitStore

(***************************************************************************)
(* PDFSignatureHandler::verifySignatures                                   *)
(***************************************************************************)
\* A guard that looks at the parameters only.
VerificationEnabled_ParametersOnly(parameters, form) ==
    parameters.enableVerification

\* parameters.enableVerification && (form.isAcroForm() || form.isXFAForm())
VerificationEnabled(parameters, form) ==
    parameters.enableVerification /\ (form.kind = "AcroForm" \/ form.kind = "XFA")

\* Entry: the guard on the parameters and the form, then form.apply.
VerifySignatures(t) ==
    /\ pc[t] = "verifySignatures"
    /\ results' = [ results EXCEPT ![t] = << >> ]
    /\ IF VerificationEnabled(call[t].parameters, call[t].form)
       THEN /\ signatureFields' =
                 [ signatureFields EXCEPT ![t] = getSignatureFields(call[t].form.fields) ]
            /\ index' = [ index EXCEPT ![t] = 1 ]
            /\ pc' = [ pc EXCEPT ![t] = "loop" ]
       ELSE /\ pc' = [ pc EXCEPT ![t] = "done" ]
            /\ UNCHANGED << signatureFields, index >>
    /\ UNCHANGED << call, handler, result, info, mutexOwner, mutexCount, errorQueue, asmVars, storeVars >>

\* Loop body, a handler exists: createHandler returns it.
CreateHandler(t) ==
    /\ pc[t] = "loop"
    /\ index[t] <= Len(signatureFields[t])
    /\ LET signatureField == signatureFields[t][index[t]]
           class == createHandler(signatureField.signature.subfilter)
       IN  /\ class # << >>
           /\ handler' = [ handler EXCEPT ![t] =
                             << [ class |-> class[1], signatureField |-> signatureField ] >> ]
    /\ pc' = [ pc EXCEPT ![t] = "verify" ]
    /\ UNCHANGED << call, signatureFields, index, result, results, info,
                    mutexOwner, mutexCount, errorQueue, asmVars, storeVars >>

\* A loop body that goes to the next field without a result when there is
\* no handler.
AddNoHandler_Skip(t) ==
    /\ pc[t] = "loop"
    /\ index[t] <= Len(signatureFields[t])
    /\ createHandler(signatureFields[t][index[t]].signature.subfilter) = << >>
    /\ index' = [ index EXCEPT ![t] = @ + 1 ]
    /\ UNCHANGED << call, pc, signatureFields, handler, result, results, info,
                    mutexOwner, mutexCount, errorQueue, asmVars, storeVars >>

\* Loop body, no handler: the result with Error_NoHandler is appended.
AddNoHandler(t) ==
    /\ pc[t] = "loop"
    /\ index[t] <= Len(signatureFields[t])
    /\ LET signatureField == signatureFields[t][index[t]]
       IN  /\ createHandler(signatureField.signature.subfilter) = << >>
           /\ results' = [ results EXCEPT ![t] = Append(@, NoHandlerResult(signatureField)) ]
    /\ index' = [ index EXCEPT ![t] = @ + 1 ]
    /\ UNCHANGED << call, pc, signatureFields, handler, result, info,
                    mutexOwner, mutexCount, errorQueue, asmVars, storeVars >>

\* The loop is over: the vector is returned.
Return(t) ==
    /\ pc[t] = "loop"
    /\ index[t] > Len(signatureFields[t])
    /\ pc' = [ pc EXCEPT ![t] = "done" ]
    /\ UNCHANGED << call, signatureFields, index, handler, result, results, info,
                    mutexOwner, mutexCount, errorQueue, asmVars, storeVars >>

(***************************************************************************)
(* verify() of the three handler classes                                   *)
(***************************************************************************)
\* PDFSignatureVerificationResult result; initializeResult(result);
Verify(t) ==
    /\ pc[t] = "verify"
    /\ result' = [ result EXCEPT ![t] = initializeResult(EmptyResult, handler[t][1].signatureField) ]
    /\ pc' = [ pc EXCEPT ![t] =
                 IF handler[t][1].class = "PDFSignatureHandler_adbe_pkcs7_rsa_sha1"
                 THEN "verifyRSACertificate" ELSE "verifyCertificate" ]
    /\ UNCHANGED << call, signatureFields, index, handler, results, info,
                    mutexOwner, mutexCount, errorQueue, asmVars, storeVars >>

\* The positions at which a PDFOpenSSLGlobalLock is constructed, and the
\* position each leads to.
LockedBody(at) ==
    CASE at = "verifyCertificate" -> "verifyCertificate.locked"
      [] at = "verifySignature" -> "verifySignature.locked"
      [] at = "getCertificateInfo" -> "getCertificateInfo.locked"

\* The positions at which a PDFOpenSSLGlobalLock is destroyed, and the
\* position the thread continues at.
AfterUnlock(at) ==
    CASE at = "verifyCertificate.return" -> "verifySignature"
      [] at = "verifySignature.return" -> "validate"
      [] at = "getCertificateInfo.return" -> "done"

\* QMutexLocker on the recursive mutex: free, or held by the same thread.
CanLock(t) == mutexOwner \in { 0, t }

\* PDFOpenSSLGlobalLock lock;
Lock(t) ==
    /\ pc[t] \in { "verifyCertificate", "verifySignature", "getCertificateInfo" }
    /\ CanLock(t)
    /\ mutexOwner' = t
    /\ mutexCount' = mutexCount + 1
    /\ pc' = [ pc EXCEPT ![t] = LockedBody(pc[t]) ]
    /\ UNCHANGED << call, signatureFields, index, handler, result, results, info, errorQueue, asmVars, storeVars >>

\* A scope that is left without the mutex being unlocked.
Unlock_KeepsMutex(t) ==
    /\ pc[t] \in { "verifyCertificate.return", "verifySignature.return",
                   "getCertificateInfo.return" }
    /\ pc' = [ pc EXCEPT ![t] = AfterUnlock(pc[t]) ]
    /\ UNCHANGED << call, signatureFields, index, handler, result, results, info,
                    mutexOwner, mutexCount, errorQueue, asmVars, storeVars >>

\* ~PDFOpenSSLGlobalLock at the end of the scope
Unlock(t) ==
    /\ pc[t] \in { "verifyCertificate.return", "verifySignature.return",
                   "getCertificateInfo.return" }
    /\ mutexCount' = mutexCount - 1
    /\ mutexOwner' = IF mutexCount = 1 THEN 0 ELSE mutexOwner
    /\ pc' = [ pc EXCEPT ![t] = AfterUnlock(pc[t]) ]
    /\ UNCHANGED << call, signatureFields, index, handler, result, results, info, errorQueue, asmVars, storeVars >>

\* The body of verifyCertificate, under the lock.
VerifyCertificate(t) ==
    /\ pc[t] = "verifyCertificate.locked"
    /\ result' = [ result EXCEPT ![t] =
                     verifyCertificate(@, handler[t][1].signatureField.signature,
                                       call[t].parameters) ]
    /\ errorQueue' = [ errorQueue EXCEPT ![t] =
                         verifyCertificateErrors(handler[t][1].signatureField.signature, @) ]
    /\ pc' = [ pc EXCEPT ![t] = "verifyCertificate.return" ]
    /\ UNCHANGED << call, signatureFields, index, handler, results, info,
                    mutexOwner, mutexCount, asmVars, storeVars >>

\* The body of verifySignature, under the lock.
VerifySignature(t) ==
    /\ pc[t] = "verifySignature.locked"
    /\ result' = [ result EXCEPT ![t] =
                     verifySignature(handler[t][1].class, @,
                                     handler[t][1].signatureField.signature,
                                     call[t].sourceData, call[t].bioAlloc, errorQueue[t]) ]
    /\ errorQueue' = [ errorQueue EXCEPT ![t] =
                         verifySignatureErrors(handler[t][1].class,
                                               handler[t][1].signatureField.signature,
                                               call[t].sourceData, call[t].bioAlloc, @) ]
    /\ pc' = [ pc EXCEPT ![t] = "verifySignature.return" ]
    /\ UNCHANGED << call, signatureFields, index, handler, results, info,
                    mutexOwner, mutexCount, asmVars, storeVars >>

\* What reading the freed certificates of the stack may do: nothing is
\* read when no certificate was pushed after the first or when the chain
\* validation is not reached.
FreedReadOutcomes(signature) ==
    LET first == createCertificate(signature, 0)
    IN  IF /\ first # << >>
           /\ PushedCertificates(signature, 1) # << >>
           /\ first[1].ctxInit
           /\ first[1].setPurpose
        THEN { "intact", "garbage", "crash" }
        ELSE { "intact" }

\* verifyRSACertificate: no lock is taken.
VerifyRSACertificate(t) ==
    /\ pc[t] = "verifyRSACertificate"
    /\ \E freedReads \in FreedReadOutcomes(handler[t][1].signatureField.signature) :
         IF freedReads = "crash"
         THEN /\ pc' = [ pc EXCEPT ![t] = "crashed" ]
              /\ UNCHANGED result
         ELSE /\ result' = [ result EXCEPT ![t] =
                               verifyRSACertificate(@, handler[t][1].signatureField.signature,
                                                    call[t].parameters, freedReads) ]
              /\ pc' = [ pc EXCEPT ![t] = "verifyRSASignature" ]
    /\ errorQueue' = [ errorQueue EXCEPT ![t] =
                         verifyRSACertificateErrors(handler[t][1].signatureField.signature, @) ]
    /\ UNCHANGED << call, signatureFields, index, handler, results, info,
                    mutexOwner, mutexCount, asmVars, storeVars >>

\* verifyRSASignature: no lock is taken.
VerifyRSASignature(t) ==
    /\ pc[t] = "verifyRSASignature"
    /\ result' = [ result EXCEPT ![t] =
                     verifyRSASignature(@, handler[t][1].signatureField.signature,
                                        call[t].sourceData, call[t].bioAlloc, errorQueue[t]) ]
    /\ errorQueue' = [ errorQueue EXCEPT ![t] =
                         verifyRSASignatureErrors(handler[t][1].signatureField.signature,
                                                  call[t].sourceData, call[t].bioAlloc, @) ]
    /\ pc' = [ pc EXCEPT ![t] = "validate" ]
    /\ UNCHANGED << call, signatureFields, index, handler, results, info,
                    mutexOwner, mutexCount, asmVars, storeVars >>

\* result.validate();
Validate(t) ==
    /\ pc[t] = "validate"
    /\ result' = [ result EXCEPT ![t] = validate(@) ]
    /\ pc' = [ pc EXCEPT ![t] = "emplace" ]
    /\ UNCHANGED << call, signatureFields, index, handler, results, info,
                    mutexOwner, mutexCount, errorQueue, asmVars, storeVars >>

\* result.emplace_back(signatureHandler->verify()); delete signatureHandler;
EmplaceBack(t) ==
    /\ pc[t] = "emplace"
    /\ results' = [ results EXCEPT ![t] = Append(@, result[t]) ]
    /\ handler' = [ handler EXCEPT ![t] = << >> ]
    /\ index' = [ index EXCEPT ![t] = @ + 1 ]
    /\ pc' = [ pc EXCEPT ![t] = "loop" ]
    /\ UNCHANGED << call, signatureFields, result, info, mutexOwner, mutexCount, errorQueue, asmVars, storeVars >>

(***************************************************************************)
(* PDFCertificateInfo::getCertificateInfo(certificateData)                 *)
(***************************************************************************)
GetCertificateInfo(t) ==
    /\ pc[t] = "getCertificateInfo.locked"
    /\ info' = [ info EXCEPT ![t] =
                   IF call[t].certificateData.x509 # << >>
                   THEN << getCertificateInfo(call[t].certificateData.x509[1]) >>
                   ELSE << >> ]
    /\ errorQueue' = [ errorQueue EXCEPT ![t] = AfterD2i(call[t].certificateData.x509, @) ]
    /\ pc' = [ pc EXCEPT ![t] = "getCertificateInfo.return" ]
    /\ UNCHANGED << call, signatureFields, index, handler, result, results,
                    mutexOwner, mutexCount, asmVars, storeVars >>

Step(t) ==
    \/ VerifySignatures(t)
    \/ CreateHandler(t)
    \/ AddNoHandler(t)
    \/ Return(t)
    \/ Verify(t)
    \/ Lock(t)
    \/ Unlock(t)
    \/ VerifyCertificate(t)
    \/ VerifySignature(t)
    \/ VerifyRSACertificate(t)
    \/ VerifyRSASignature(t)
    \/ Validate(t)
    \/ EmplaceBack(t)

Next == \E t \in Threads : Step(t)

Spec == Init /\ [][Next]_vars

(***************************************************************************)
(* The byte-range assembler run alone on a file and a signature.           *)
(***************************************************************************)
AsmByteRanges ==
    { [ offset |-> offset, size |-> size ] :
        offset \in -1..(MaxFileLen + 1), size \in -1..(MaxFileLen + 1) }
    \cup { [ offset |-> MaxPDFInteger, size |-> 1 ],
           [ offset |-> 1, size |-> MaxPDFInteger ],
           [ offset |-> MaxPDFInteger, size |-> MaxPDFInteger ] }

\* Files that hold the hex encoding of ContentsBytes, in either case, with
\* and without its delimiters and with bytes before and after it; the
\* bytes before it may spell the same hex digits.
WindowFiles ==
    { before \o hex \o after :
        before \in { << >>, << "<" >>, << "p" >>, << "p", "<" >>, << "a", "b", "<" >> },
        hex \in { << "a", "b" >>, << "A", "B" >> },
        after \in { << >>, << ">" >>, << "q" >>, << ">", "q" >> } }

\* Byte range lists for a file with a window: everything, the two parts
\* around a window of the given place, the first part alone, nothing.
WindowByteRangeLists(sourceData) ==
    { << >>, WholeFile(sourceData) }
    \cup UNION { { << [ offset |-> 0, size |-> first ] >>,
                   << [ offset |-> 0, size |-> first ],
                      [ offset |-> first + width, size |-> Len(sourceData) - first - width ] >> } :
                 first \in 0..2, width \in { 2, 4 } }

AsmInput(sourceData, contents, byteRanges, bioAlloc) ==
    [ sourceData |-> sourceData,
      signature |-> Signature("adbe.pkcs7.detached", contents, byteRanges, << >>),
      bioAlloc |-> bioAlloc ]

AsmInputs(maxRanges) ==
    { AsmInput(FileOfLen(n), Pkcs7Contents(GoodPkcs7), byteRanges, TRUE) :
        n \in 0..MaxFileLen, byteRanges \in ByteRangeLists(AsmByteRanges, maxRanges) }
    \cup UNION { { AsmInput(sourceData, [ Pkcs7Contents(GoodPkcs7) EXCEPT !.data = data ],
                            byteRanges, bioAlloc) :
                     data \in { << >>, ContentsBytes, << 205 >> },
                     byteRanges \in WindowByteRangeLists(sourceData),
                     bioAlloc \in BOOLEAN } :
                 sourceData \in WindowFiles \cup { << >> } }

AsmInit ==
    /\ InitThreads([ t \in Threads |-> NoCall ])
    /\ asmIn \in AsmInputs(MaxRanges)
    /\ asmOut = << >>
    /\ InitStore

\* One call of getSignedDataBuffer on a fresh result.
GetSignedDataBuffer ==
    /\ asmOut = << >>
    /\ asmOut' = << getSignedDataBuffer(EmptyResult, asmIn.signature, asmIn.sourceData,
                                        asmIn.bioAlloc) >>
    /\ UNCHANGED << asmIn, threadVars, storeVars >>

AsmNext == GetSignedDataBuffer

AsmSpec == AsmInit /\ [][AsmNext]_vars

(***************************************************************************)
(* Several threads, each running one operation: a verification by each of  *)
(* the engines and by none, and getCertificateInfo.  The Cert array of the *)
(* legacy engine holds one certificate, so that nothing is pushed on its   *)
(* chain stack after the first certificate.                                *)
(***************************************************************************)
ThreadCalls ==
    { VerifySignaturesCall("AcroForm", << Field(1, "Signature", signature) >>, FullFile,
                           Parameters(TRUE, FALSE), TRUE) :
        signature \in
          { Signature("adbe.pkcs7.detached", Pkcs7Contents(GoodPkcs7), WholeFile(FullFile), << >>),
            Signature("adbe.pkcs7.sha1", GarbageContents, WholeFile(FullFile), << >>),
            Signature("adbe.x509.rsa_sha1", OctetContents(GoodOctetString), WholeFile(FullFile),
                      << [ x509 |-> << GoodCertificate(1) >> ] >>),
            Signature("adbe.foo.unknown", GarbageContents, << >>, << >>) } }
    \cup { GetCertificateInfoCall([ x509 |-> << "ca" >> ]),
           GetCertificateInfoCall(NoCertificateData) }

LockInit ==
    /\ \E calls \in [ Threads -> ThreadCalls ] : InitThreads(calls)
    /\ asmIn = NoAsmInput
    /\ asmOut = << >>
    /\ InitStore

LockNext == \E t \in Threads : Step(t) \/ GetCertificateInfo(t)

LockSpec == LockInit /\ [][LockNext]_vars

\* Every thread that can take a step eventually takes one.
FairLockSpec == LockSpec /\ \A t \in Threads : WF_vars(Step(t) \/ GetCertificateInfo(t))

(***************************************************************************)
(* The certificate store: PDFCertificateInfo, PDFCertificateStore, their   *)
(* serialization to a QDataStream, and one store that is filled, written   *)
(* and read back.                                                          *)
(***************************************************************************)
\* The version number every serialize writes first.
persist_version == 1

\* PDFCertificateStore::EntryType
EntryTypes == { "System", "User" }

\* The switch over the key type of the certificate's public key.
PublicKeyOf(keyType) ==
    CASE keyType = "EVP_PKEY_RSA" -> "KeyRSA"
      [] keyType = "EVP_PKEY_DSA" -> "KeyDSA"
      [] keyType = "EVP_PKEY_DH" -> "KeyDH"
      [] keyType = "EVP_PKEY_EC" -> "KeyEC"
      [] OTHER -> "KeyUnknown"

\* PDFPublicKeySignatureHandler::getCertificateInfo with every field of
\* the info: the name entries of the subject (three of the fifteen are
\* modelled: country, organization, common name), the version, the
\* validity, the key, the key usage and the DER encoding.
CertificateInfoOf(certificate) ==
    [ version |-> certificate.version,
      keySize |-> certificate.bits,
      publicKey |-> PublicKeyOf(certificate.keyType),
      nameEntries |-> << certificate.countryName, certificate.organizationName,
                         certificate.commonName >>,
      notValidBefore |-> certificate.notBefore,
      notValidAfter |-> certificate.notAfter,
      keyUsage |-> certificate.keyUsage,
      certificateData |-> certificate.der ]

\* PDFCertificateInfo::getCertificateInfo(certificateData): the info of the
\* certificate that d2i_X509 parses out of the bytes, << >> if it fails.
InfoOfCertificateData(certificateData) ==
    IF certificateData.x509 # << >>
    THEN << CertificateInfoOf(certificateData.x509[1]) >>
    ELSE << >>

\* PDFCertificateInfo::serialize: the items it writes, in its order.
serializeInfo(certificateInfo) ==
    << persist_version,
       certificateInfo.version,
       certificateInfo.keySize,
       certificateInfo.publicKey,
       certificateInfo.nameEntries,
       certificateInfo.notValidBefore,
       certificateInfo.notValidAfter,
       certificateInfo.keyUsage,
       certificateInfo.certificateData >>

\* A deserialize that reads the key size before the version.
deserializeInfo_KeySizeFirst(dataStream) ==
    [ value |-> [ version |-> dataStream[3],
                  keySize |-> dataStream[2],
                  publicKey |-> dataStream[4],
                  nameEntries |-> dataStream[5],
                  notValidBefore |-> dataStream[6],
                  notValidAfter |-> dataStream[7],
                  keyUsage |-> dataStream[8],
                  certificateData |-> dataStream[9] ],
      rest |-> SubSeq(dataStream, 10, Len(dataStream)) ]

\* PDFCertificateInfo::deserialize: the info read from the front of the
\* stream and the rest of the stream; the first item is read and dropped.
deserializeInfo(dataStream) ==
    [ value |-> [ version |-> dataStream[2],
                  keySize |-> dataStream[3],
                  publicKey |-> dataStream[4],
                  nameEntries |-> dataStream[5],
                  notValidBefore |-> dataStream[6],
                  notValidAfter |-> dataStream[7],
                  keyUsage |-> dataStream[8],
                  certificateData |-> dataStream[9] ],
      rest |-> SubSeq(dataStream, 10, Len(dataStream)) ]

\* PDFCertificateStore::CertificateEntry::serialize
serializeEntry(entry) == << persist_version, entry.type >> \o serializeInfo(entry.info)

\* The entry made of a type and of what deserializeInfo read.
EntryRead(type, read) ==
    [ value |-> [ type |-> type, info |-> read.value ], rest |-> read.rest ]

\* PDFCertificateStore::CertificateEntry::deserialize
deserializeEntry(dataStream) ==
    EntryRead(dataStream[2], deserializeInfo(SubSeq(dataStream, 3, Len(dataStream))))

\* operator<< of a vector: its items, each by its serialize (the size is
\* written before them).
RECURSIVE serializeEntries(_)
serializeEntries(certificates) ==
    IF certificates = << >> THEN << >>
    ELSE serializeEntry(Head(certificates)) \o serializeEntries(Tail(certificates))

\* One step of operator>> of a vector: the entry read is appended.
RECURSIVE deserializeEntries(_, _, _)
NextEntry(read, size, acc) == deserializeEntries(read.rest, size - 1, Append(acc, read.value))

\* operator>> of a vector: size items, each by its deserialize.
deserializeEntries(dataStream, size, acc) ==
    IF size = 0 THEN acc ELSE NextEntry(deserializeEntry(dataStream), size, acc)

\* PDFCertificateStore::serialize
serialize(certificates) ==
    << persist_version, Len(certificates) >> \o serializeEntries(certificates)

\* PDFCertificateStore::deserialize: m_certificates as read from the stream.
deserialize(dataStream) ==
    deserializeEntries(SubSeq(dataStream, 3, Len(dataStream)), dataStream[2], << >>)

\* PDFCertificateStore::contains
contains(certificates, certificateInfo) ==
    \E i \in 1..Len(certificates) : certificates[i].info = certificateInfo

\* An add that appends the entry without looking for an equal info.
add_AlwaysAppends(certificates, type, certificateInfo) ==
    [ certificates |-> Append(certificates, [ type |-> type, info |-> certificateInfo ]),
      returned |-> TRUE ]

\* An add that gives the entry type of the call to the entry that already
\* holds the info.
add_UpdatesType(certificates, type, certificateInfo) ==
    [ certificates |->
        IF ~(\E i \in 1..Len(certificates) : certificates[i].info = certificateInfo)
        THEN Append(certificates, [ type |-> type, info |-> certificateInfo ])
        ELSE [ i \in 1..Len(certificates) |->
                 IF certificates[i].info = certificateInfo
                 THEN [ certificates[i] EXCEPT !.type = type ]
                 ELSE certificates[i] ],
      returned |-> TRUE ]

\* PDFCertificateStore::add(type, info): m_certificates after the call and
\* the value returned.
add(certificates, type, certificateInfo) ==
    [ certificates |->
        IF ~(\E i \in 1..Len(certificates) : certificates[i].info = certificateInfo)
        THEN Append(certificates, [ type |-> type, info |-> certificateInfo ])
        ELSE certificates,
      returned |-> TRUE ]

\* The add of an info that may be missing.
AddOptional(certificates, type, certificateInfo) ==
    IF certificateInfo # << >>
    THEN add(certificates, type, certificateInfo[1])
    ELSE [ certificates |-> certificates, returned |-> FALSE ]

\* PDFCertificateStore::add(type, certificate)
addCertificate(certificates, type, certificate) ==
    AddOptional(certificates, type, InfoOfCertificateData(certificate))

\* What the crypto library reads out of a parsed certificate.
X509(der, version, keyType, bits, commonName, notBefore, notAfter, keyUsage) ==
    [ der |-> der, version |-> version, keyType |-> keyType, bits |-> bits,
      countryName |-> "CZ", organizationName |-> "", commonName |-> commonName,
      notBefore |-> notBefore, notAfter |-> notAfter, keyUsage |-> keyUsage ]

\* Certificates as byte arrays: three that parse and one that does not.
StoreCertificates ==
    { [ x509 |-> << X509("der1", 2, "EVP_PKEY_RSA", 11, "Root", 3, 7, 6) >> ],
      [ x509 |-> << X509("der2", 0, "EVP_PKEY_EC", 5, "User", 4, 8, 1) >> ],
      [ x509 |-> << X509("der3", 2, "EVP_PKEY_ED25519", 5, "", 4, 9, 0) >> ],
      NoCertificateData }

\* Infos a caller passes to add(type, info).
StoreInfos == { c[1] : c \in { InfoOfCertificateData(d) : d \in StoreCertificates } \ { << >> } }

\* store.add(type, info)
Add ==
    /\ adds < MaxAdds
    /\ \E type \in EntryTypes, certificateInfo \in StoreInfos :
          /\ store' = add(store, type, certificateInfo).certificates
          /\ lastAdd' = << [ overload |-> "info", type |-> type, info |-> << certificateInfo >>,
                             before |-> store,
                             returned |-> add(store, type, certificateInfo).returned ] >>
    /\ adds' = adds + 1
    /\ UNCHANGED << stream, loaded, threadVars, asmVars >>

\* store.add(type, certificate); PDFOpenSSLGlobalLock is taken and
\* released inside the call.
AddCertificate ==
    /\ adds < MaxAdds
    /\ \E type \in EntryTypes, certificate \in StoreCertificates :
          /\ store' = addCertificate(store, type, certificate).certificates
          /\ lastAdd' = << [ overload |-> "certificate", type |-> type,
                             info |-> InfoOfCertificateData(certificate),
                             before |-> store,
                             returned |-> addCertificate(store, type, certificate).returned ] >>
    /\ adds' = adds + 1
    /\ UNCHANGED << stream, loaded, threadVars, asmVars >>

\* store.serialize(stream) on a new stream
Serialize ==
    /\ stream = << >>
    /\ stream' = << serialize(store) >>
    /\ UNCHANGED << store, loaded, lastAdd, adds, threadVars, asmVars >>

\* other.deserialize(stream) on a new store
Deserialize ==
    /\ stream # << >>
    /\ loaded = << >>
    /\ loaded' = << deserialize(stream[1]) >>
    /\ UNCHANGED << store, stream, lastAdd, adds, threadVars, asmVars >>

StoreInit ==
    /\ InitThreads([ t \in Threads |-> NoCall ])
    /\ asmIn = NoAsmInput
    /\ asmOut = << >>
    /\ InitStore

StoreNext == Add \/ AddCertificate \/ Serialize \/ Deserialize

StoreSpec == StoreInit /\ [][StoreNext]_vars

(***************************************************************************)
(* A PDFSignatureVerificationResult that receives add*Error and            *)
(* add*Warning calls in any order.                                         *)
(***************************************************************************)
\* The add operations of the result that take no argument.
AddOperations ==
    { "addInvalidCertificateError", "addNoSignaturesError", "addCertificateMissingError",
      "addCertificateGenericError", "addCertificateExpiredError",
      "addCertificateSelfSignedError", "addCertificateSelfSignedInChainError",
      "addCertificateTrustedNotFoundError", "addCertificateRevokedError",
      "addInvalidSignatureError", "addSignatureNoSignaturesFoundError",
      "addSignatureCertificateMissingError", "addSignatureDigestFailureError",
      "addSignatureDataOtherError", "addSignatureDataCoveredBySignatureMissingError" }

\* The result after the add operation of that name.
AddOperation(operation, r) ==
    CASE operation = "addInvalidCertificateError" -> addInvalidCertificateError(r)
      [] operation = "addNoSignaturesError" -> addNoSignaturesError(r)
      [] operation = "addCertificateMissingError" -> addCertificateMissingError(r)
      [] operation = "addCertificateGenericError" -> addCertificateGenericError(r)
      [] operation = "addCertificateExpiredError" -> addCertificateExpiredError(r)
      [] operation = "addCertificateSelfSignedError" -> addCertificateSelfSignedError(r)
      [] operation = "addCertificateSelfSignedInChainError" ->
            addCertificateSelfSignedInChainError(r)
      [] operation = "addCertificateTrustedNotFoundError" ->
            addCertificateTrustedNotFoundError(r)
      [] operation = "addCertificateRevokedError" -> addCertificateRevokedError(r)
      [] operation = "addInvalidSignatureError" -> addInvalidSignatureError(r)
      [] operation = "addSignatureNoSignaturesFoundError" ->
            addSignatureNoSignaturesFoundError(r)
      [] operation = "addSignatureCertificateMissingError" ->
            addSignatureCertificateMissingError(r)
      [] operation = "addSignatureDigestFailureError" -> addSignatureDigestFailureError(r)
      [] operation = "addSignatureDataOtherError" -> addSignatureDataOtherError(r)
      [] operation = "addSignatureDataCoveredBySignatureMissingError" ->
            addSignatureDataCoveredBySignatureMissingError(r)

\* Arguments of the add operations that take one.
OtherErrorCodes == { X509_V_ERR_CERT_SIGNATURE_FAILURE, 23 }

NotCoveredCounts == { 1, 2 }

MessageCount(r) == Len(r.errors) + Len(r.warnings)

\* Thread 1 holds the result; an add operation without argument is called.
AddError ==
    /\ MessageCount(result[1]) < MaxMessages
    /\ \E operation \in AddOperations :
         result' = [ result EXCEPT ![1] = AddOperation(operation, @) ]
    /\ UNCHANGED << call, pc, signatureFields, index, handler, results, info, errorQueue,
                    mutexOwner, mutexCount, asmVars, storeVars >>

AddNoHandlerError ==
    /\ MessageCount(result[1]) < MaxMessages
    /\ \E format \in UnknownSubfilters :
         result' = [ result EXCEPT ![1] = addNoHandlerError(@, format) ]
    /\ UNCHANGED << call, pc, signatureFields, index, handler, results, info, errorQueue,
                    mutexOwner, mutexCount, asmVars, storeVars >>

AddCertificateOtherError ==
    /\ MessageCount(result[1]) < MaxMessages
    /\ \E error \in OtherErrorCodes :
         result' = [ result EXCEPT ![1] = addCertificateOtherError(@, error) ]
    /\ UNCHANGED << call, pc, signatureFields, index, handler, results, info, errorQueue,
                    mutexOwner, mutexCount, asmVars, storeVars >>

AddSignatureNotCoveredBytesWarning ==
    /\ MessageCount(result[1]) < MaxMessages
    /\ \E count \in NotCoveredCounts :
         result' = [ result EXCEPT ![1] = addSignatureNotCoveredBytesWarning(@, count) ]
    /\ UNCHANGED << call, pc, signatureFields, index, handler, results, info, errorQueue,
                    mutexOwner, mutexCount, asmVars, storeVars >>

\* A default constructed result; no thread runs a call.
ResultInit ==
    /\ InitThreads([ t \in Threads |-> NoCall ])
    /\ asmIn = NoAsmInput
    /\ asmOut = << >>
    /\ InitStore

ResultNext ==
    \/ AddError
    \/ AddNoHandlerError
    \/ AddCertificateOtherError
    \/ AddSignatureNotCoveredBytesWarning

ResultSpec == ResultInit /\ [][ResultNext]_vars

(***************************************************************************)
(* Properties of verifySignatures, checked under Spec.                     *)
(***************************************************************************)
\* The thread has returned from verifySignatures: results[t] is its value.
Returned(t) == call[t].op = "verifySignatures" /\ pc[t] = "done"

\* What the caller asked for: verification enabled on an AcroForm or XFA form.
VerificationRequested(c) ==
    c.parameters.enableVerification /\ c.form.kind \in { "AcroForm", "XFA" }

\* The positions of the signature fields of a form, in enumeration order.
SignaturePositions(fields) == { k \in 1..Len(fields) : fields[k].fieldType = "Signature" }

\* The i-th signature field the form enumerates.
NthSignatureField(fields, i) ==
    fields[CHOOSE k \in SignaturePositions(fields) :
             Cardinality({ j \in SignaturePositions(fields) : j <= k }) = i]

KnownSubfilters == { "adbe.pkcs7.detached", "adbe.pkcs7.sha1", "adbe.x509.rsa_sha1" }

ErrorFlagsOfPhases == CertificateErrorFlags \cup SignatureErrorFlags

\* C1: in every result of the vector verifySignatures builds and returns,
\* whether made by an engine's verify() or by the no-handler path, OK is set
\* if and only if Certificate_OK and Signature_OK are set and no flag of the
\* certificate error group or of the signature error group is set.
C1_OKIffBothPhasesValid ==
    \A t \in Threads : \A i \in 1..Len(results[t]) :
        LET r == results[t][i]
        IN  ("OK" \in r.flags)
              <=> /\ "Certificate_OK" \in r.flags
                  /\ "Signature_OK" \in r.flags
                  /\ r.flags \cap ErrorFlagsOfPhases = {}

\* A returned vector with a result that is OK and one, of an engine, whose
\* certificate phase passed and whose signature phase recorded an error.
C1_Witness_OKReturned ==
    \E t \in Threads :
        /\ Returned(t)
        /\ \E i \in 1..Len(results[t]) : "OK" \in results[t][i].flags

C1_Witness_CertificateOKOnly ==
    \E t \in Threads :
        /\ Returned(t)
        /\ \E i \in 1..Len(results[t]) :
             /\ "Certificate_OK" \in results[t][i].flags
             /\ results[t][i].flags \cap SignatureErrorFlags # {}
             /\ "OK" \notin results[t][i].flags

\* C2: when verifySignatures returns on an enabled call, its vector holds
\* exactly one result for each field of the form whose type is Signature,
\* handled by an engine or not: as many results as signature fields, and
\* for each signature field exactly one result with its reference.  While
\* the loop runs, one result has been appended per field already visited.
C2_OneResultPerSignatureField ==
    \A t \in Threads :
        LET fields == call[t].form.fields
        IN  /\ (Returned(t) /\ VerificationRequested(call[t]))
                 => /\ Len(results[t]) = Cardinality(SignaturePositions(fields))
                    /\ \A k \in SignaturePositions(fields) :
                         Cardinality({ i \in 1..Len(results[t]) :
                                         results[t][i].signatureFieldReference
                                           = fields[k].reference }) = 1
            /\ pc[t] = "loop" => Len(results[t]) = index[t] - 1

\* A returned vector for a form with a field handled by an engine, a field
\* no engine handles, and nothing else.
C2_Witness_HandledAndUnhandled ==
    \E t \in Threads :
        /\ Returned(t)
        /\ Len(results[t]) = 2
        /\ \E i, j \in 1..2 :
             /\ "Error_NoHandler" \in results[t][i].flags
             /\ "Error_NoHandler" \notin results[t][j].flags

\* C3: the i-th result of the vector carries the reference and the
\* qualified name of the i-th signature field the form enumerates, for any
\* mix of handled and unhandled subfilters and of fields of other types.
C3_ResultsInEnumerationOrder ==
    \A t \in Threads : \A i \in 1..Len(results[t]) :
        LET fields == call[t].form.fields
        IN  /\ i <= Cardinality(SignaturePositions(fields))
            /\ results[t][i].signatureFieldReference
                 = NthSignatureField(fields, i).reference
            /\ results[t][i].signatureFieldQualifiedName
                 = NthSignatureField(fields, i).name

\* A returned vector whose first result, made by an engine, belongs to the
\* second field of the form, the first field being no signature field.
C3_Witness_SecondFieldFirstResult ==
    \E t \in Threads :
        /\ Returned(t)
        /\ Len(call[t].form.fields) >= 2
        /\ call[t].form.fields[1].fieldType # "Signature"
        /\ Len(results[t]) >= 1
        /\ results[t][1].signatureFieldReference = call[t].form.fields[2].reference
        /\ "Error_NoHandler" \notin results[t][1].flags

\* C4: when enableVerification is false or the form is neither an AcroForm
\* nor an XFA form, verifySignatures returns the empty vector, however many
\* signature fields the form has; no field is visited and no handler created.
C4_DisabledReturnsEmpty ==
    \A t \in Threads :
        (call[t].op = "verifySignatures" /\ ~VerificationRequested(call[t]))
          => /\ results[t] = << >>
             /\ signatureFields[t] = << >>
             /\ handler[t] = << >>
             /\ index[t] = 0
             /\ pc[t] \in { "verifySignatures", "done" }

\* verifySignatures has returned, on a form with signature fields, with
\* verification disabled; and with verification enabled on a form that is
\* neither an AcroForm nor an XFA form.
C4_Witness_DisabledWithFields ==
    \E t \in Threads :
        /\ Returned(t)
        /\ ~call[t].parameters.enableVerification
        /\ call[t].form.kind = "AcroForm"
        /\ SignaturePositions(call[t].form.fields) # {}

C4_Witness_NoFormWithFields ==
    \E t \in Threads :
        /\ Returned(t)
        /\ call[t].parameters.enableVerification
        /\ call[t].form.kind = "None"
        /\ SignaturePositions(call[t].form.fields) # {}

\* C5: in a returned vector, a signature field whose subfilter is none of
\* the three known ones has exactly one result; that result has the flag
\* Error_NoHandler and no other flag (so none of OK, Certificate_OK,
\* Signature_OK), one error message, which names the subfilter, no warning,
\* and the reference and qualified name of the field.  A field with a known
\* subfilter has no result with Error_NoHandler, and no result an engine
\* builds ever has it.
C5_NoHandlerForUnknownSubfilter ==
    \A t \in Threads :
        /\ "Error_NoHandler" \notin result[t].flags
        /\ (Returned(t) /\ VerificationRequested(call[t]))
             => \A k \in SignaturePositions(call[t].form.fields) :
                  LET field == call[t].form.fields[k]
                      own == { i \in 1..Len(results[t]) :
                                 results[t][i].signatureFieldReference = field.reference }
                  IN  IF field.signature.subfilter \in KnownSubfilters
                      THEN \A i \in own : "Error_NoHandler" \notin results[t][i].flags
                      ELSE /\ Cardinality(own) = 1
                           /\ \A i \in own :
                                /\ results[t][i].flags = { "Error_NoHandler" }
                                /\ results[t][i].errors =
                                     << "No signature handler for signature format '"
                                          \o field.signature.subfilter \o "'." >>
                                /\ results[t][i].warnings = << >>
                                /\ results[t][i].signatureFieldQualifiedName = field.name

\* A returned vector with the result of a field of unknown subfilter, and
\* one with the result of a field of the legacy RSA engine.
C5_Witness_UnknownSubfilter ==
    \E t \in Threads :
        /\ Returned(t)
        /\ \E k \in SignaturePositions(call[t].form.fields) :
             /\ call[t].form.fields[k].signature.subfilter = "adbe.pkcs7.Detached"
             /\ \E i \in 1..Len(results[t]) :
                  /\ results[t][i].signatureFieldReference = call[t].form.fields[k].reference
                  /\ "Error_NoHandler" \in results[t][i].flags

C5_Witness_KnownSubfilter ==
    \E t \in Threads :
        /\ Returned(t)
        /\ \E k \in SignaturePositions(call[t].form.fields) :
             /\ call[t].form.fields[k].signature.subfilter = "adbe.x509.rsa_sha1"
             /\ \E i \in 1..Len(results[t]) :
                  results[t][i].signatureFieldReference = call[t].form.fields[k].reference

(***************************************************************************)
(* Properties of the OpenSSL mutex, checked under LockSpec and             *)
(* FairLockSpec.                                                           *)
(***************************************************************************)
\* The positions at which a thread is about to call, or is inside, the
\* PKCS#7, X.509, ASN.1, RSA or digest functions of the library.
InCrypto(t) ==
    pc[t] \in { "verifyCertificate.locked", "verifySignature.locked",
                "getCertificateInfo.locked", "verifyRSACertificate", "verifyRSASignature" }

\* C6: a thread that is inside the crypto functions of the library, in any
\* of the three engines or in getCertificateInfo, holds the OpenSSL mutex;
\* hence no two threads are inside them at the same time.
C6_CryptoOnlyUnderMutex ==
    /\ \A t \in Threads : InCrypto(t) => mutexOwner = t
    /\ \A t, u \in Threads : (InCrypto(t) /\ InCrypto(u)) => t = u

\* The positions at which a thread waits for the mutex.
AtLock(t) == pc[t] \in { "verifyCertificate", "verifySignature", "getCertificateInfo" }

Completed(t) == pc[t] = "done"

\* C7: the mutex is unlocked on every way out of verifyCertificate,
\* verifySignature and getCertificateInfo, so that under fair scheduling of
\* the threads every operation started on any thread completes, whatever
\* the threads contend for, and from then on the mutex is free: no thread
\* waits forever and none ends holding the mutex.
C7_AllComplete ==
    <>[](/\ \A t \in Threads : Completed(t)
         /\ mutexOwner = 0
         /\ mutexCount = 0)

\* A thread waits for the mutex that another thread holds.
C7_Witness_Contention ==
    \E t, u \in Threads :
        /\ t # u
        /\ AtLock(t)
        /\ mutexOwner = u
        /\ pc[u] = "verifySignature.return"

(***************************************************************************)
(* Properties of the engines, checked under Spec.                          *)
(***************************************************************************)
\* The certificate errors the certificate phase records for a signer info
\* processed on its own.
OwnCertificateErrors(pkcs7, i, parameters) ==
    VerifyCertificateSigners(EmptyResult, [ pkcs7 EXCEPT !.signer_info = << @[i] >> ],
                             1, parameters).flags \cap CertificateErrorFlags

\* The signature errors the signature phase records for a signer info
\* processed on its own.
OwnSignatureErrors(pkcs7, i) ==
    VerifySignatureSigners(EmptyResult, [ pkcs7 EXCEPT !.signer_info = << @[i] >> ],
                           1, << >>).flags \cap SignatureErrorFlags

\* The thread runs a PKCS#7 engine on a container that parses and has
\* signer infos and certificates.
InSignerLoop(t) ==
    /\ handler[t] # << >>
    /\ handler[t][1].class # "PDFSignatureHandler_adbe_pkcs7_rsa_sha1"
    /\ handler[t][1].signatureField.signature.contents.pkcs7 # << >>
    /\ LET pkcs7 == handler[t][1].signatureField.signature.contents.pkcs7[1]
       IN  Len(pkcs7.signer_info) > 0 /\ pkcs7.cert # << >> /\ pkcs7.dataInit

\* C8: at the end of the certificate phase of a PKCS#7 engine the
\* certificate errors of the result are those of every signer info of the
\* container, each processed on its own; at the end of the signature phase,
\* when the signed data were assembled, the signature errors of the result
\* are those of every signer info: an error of one signer stops no other.
C8_EverySignerProcessed ==
    \A t \in Threads :
        InSignerLoop(t) =>
            LET pkcs7 == handler[t][1].signatureField.signature.contents.pkcs7[1]
                signers == 1..Len(pkcs7.signer_info)
            IN  /\ pc[t] = "verifyCertificate.return"
                     => result[t].flags \cap CertificateErrorFlags
                          = UNION { OwnCertificateErrors(pkcs7, i, call[t].parameters) :
                                      i \in signers }
                /\ (/\ pc[t] = "verifySignature.return"
                    /\ call[t].bioAlloc
                    /\ "Error_Signature_DataCoveredBySignatureMissing" \notin result[t].flags)
                     => result[t].flags \cap SignatureErrorFlags
                          = UNION { OwnSignatureErrors(pkcs7, i) : i \in signers }

\* The byte ranges hold a range of non-zero length that starts before the
\* file or ends after it.
RangeOutOfFile(byteRanges, sourceData) ==
    \E i \in 1..Len(byteRanges) :
        /\ byteRanges[i].size # 0
        /\ \/ byteRanges[i].offset < 0
           \/ byteRanges[i].offset + byteRanges[i].size > Len(sourceData)

\* The signature phase of the engine of the signature gets as far as the
\* call of getSignedDataBuffer: Contents parses as a PKCS#7 container, or,
\* in the legacy engine, the first certificate parses and has an RSA key.
ReachesAssembler(signature) ==
    IF signature.subfilter = "adbe.x509.rsa_sha1"
    THEN /\ signature.certificates # << >>
         /\ signature.certificates[1].x509 # << >>
         /\ signature.certificates[1].x509[1].pubkey
         /\ signature.certificates[1].x509[1].rsa
    ELSE signature.contents.pkcs7 # << >>

\* The field of the form a result belongs to.
FieldOf(t, r) ==
    CHOOSE field \in { call[t].form.fields[k] : k \in SignaturePositions(call[t].form.fields) } :
        field.reference = r.signatureFieldReference

\* C9 as stated: every result of an engine for a signature with a range of
\* non-zero length out of the file carries
\* Error_Signature_DataCoveredBySignatureMissing, whatever Contents and the
\* certificates are.
C9_OutOfFileAlwaysReported ==
    \A t \in Threads : \A i \in 1..Len(results[t]) :
        LET signature == FieldOf(t, results[t][i]).signature
        IN  (/\ signature.subfilter \in KnownSubfilters
             /\ RangeOutOfFile(signature.byteRanges, call[t].sourceData))
              => "Error_Signature_DataCoveredBySignatureMissing" \in results[t][i].flags

\* C9 amended: a result of an engine for a signature with a range of
\* non-zero length out of the file carries
\* Error_Signature_DataCoveredBySignatureMissing when the signature phase
\* gets as far as the assembler, whatever the certificate phase recorded;
\* when it does not, the result carries Error_Signature_Invalid (PKCS#7
\* engines) or Error_Signature_SourceCertificateMissing (legacy engine)
\* instead.  In both cases Signature_OK and OK are not set.
C9_OutOfFileReportedWhenAssembled ==
    \A t \in Threads : \A i \in 1..Len(results[t]) :
        LET signature == FieldOf(t, results[t][i]).signature
            flags == results[t][i].flags
        IN  (/\ signature.subfilter \in KnownSubfilters
             /\ RangeOutOfFile(signature.byteRanges, call[t].sourceData))
              => /\ IF ReachesAssembler(signature)
                    THEN "Error_Signature_DataCoveredBySignatureMissing" \in flags
                    ELSE /\ "Error_Signature_DataCoveredBySignatureMissing" \notin flags
                         /\ IF signature.subfilter = "adbe.x509.rsa_sha1"
                            THEN "Error_Signature_SourceCertificateMissing" \in flags
                            ELSE "Error_Signature_Invalid" \in flags
                 /\ "Signature_OK" \notin flags
                 /\ "OK" \notin flags

\* A returned result with the error, for a signature whose second range
\* alone is out of the file and whose certificate has expired.
C9_Witness_SecondRangeOutOfFile ==
    \E t \in Threads :
        /\ Returned(t)
        /\ \E i \in 1..Len(results[t]) :
             LET signature == FieldOf(t, results[t][i]).signature
             IN  /\ Len(signature.byteRanges) = 2
                 /\ ~RangeOutOfFile(<< signature.byteRanges[1] >>, call[t].sourceData)
                 /\ RangeOutOfFile(<< signature.byteRanges[2] >>, call[t].sourceData)
                 /\ "Error_Certificate_Expired" \in results[t][i].flags
                 /\ "Error_Signature_DataCoveredBySignatureMissing" \in results[t][i].flags

(***************************************************************************)
(* Properties of the byte-range assembler, checked under AsmSpec.          *)
(***************************************************************************)
\* The bytes of the file at offset .. offset + size - 1.
BytesOfRange(sourceData, byteRange) ==
    [ k \in 1..byteRange.size |-> sourceData[byteRange.offset + k] ]

\* The concatenation of the bytes of the ranges of non-zero length, in the
\* order of the array.
RECURSIVE Concatenation(_, _)
Concatenation(sourceData, byteRanges) ==
    IF byteRanges = << >> THEN << >>
    ELSE LET last == byteRanges[Len(byteRanges)]
             front == Concatenation(sourceData, SubSeq(byteRanges, 1, Len(byteRanges) - 1))
         IN  IF last.size = 0 THEN front ELSE front \o BytesOfRange(sourceData, last)

RECURSIVE SumOfLengths(_)
SumOfLengths(byteRanges) ==
    IF byteRanges = << >> THEN 0
    ELSE (IF Head(byteRanges).size = 0 THEN 0 ELSE Head(byteRanges).size)
         + SumOfLengths(Tail(byteRanges))

\* C10: when getSignedDataBuffer returns a bio, the buffer it assembled is
\* the concatenation, in the order of the ByteRange array, of the bytes
\* F[offset .. offset+length) of the ranges of non-zero length, and its
\* length is the sum of the lengths of those ranges.
C10_BufferIsConcatenation ==
    (asmOut # << >> /\ asmOut[1].bio)
      => /\ asmOut[1].outputBuffer
              = Concatenation(asmIn.sourceData, asmIn.signature.byteRanges)
         /\ Len(asmOut[1].outputBuffer) = SumOfLengths(asmIn.signature.byteRanges)

\* The assembler succeeded on two ranges of non-zero length, the second
\* before the first in the file.
C10_Witness_TwoRangesAssembled ==
    /\ asmOut # << >>
    /\ asmOut[1].bio
    /\ Len(asmOut[1].outputBuffer) = 2
    /\ LET byteRanges == asmIn.signature.byteRanges
       IN  \E i, j \in 1..Len(byteRanges) :
             /\ i < j
             /\ byteRanges[i].size = 1
             /\ byteRanges[j].size = 1
             /\ byteRanges[j].offset < byteRanges[i].offset

\* The result carries the warning about bytes that are not covered.
NotCoveredBytesWarned(r) == hasFlag(r, "Warning_Signature_NotCoveredBytes")

\* p lies in a byte range of non-zero length of the array.
InByteRange(byteRanges, p) ==
    \E i \in 1..Len(byteRanges) :
        /\ byteRanges[i].size # 0
        /\ byteRanges[i].offset <= p
        /\ p < byteRanges[i].offset + byteRanges[i].size

\* p lies in the window where the hex encoded Contents was located.
InContentsWindow(found, p) ==
    /\ found # << >>
    /\ found[1].firstByteIndex <= p
    /\ p <= found[1].lastByteIndex

\* The positions of the file that lie in no byte range and not in the window.
UncoveredPositions(byteRanges, found, sourceData) ==
    { p \in 0..(Len(sourceData) - 1) :
        ~InByteRange(byteRanges, p) /\ ~InContentsWindow(found, p) }

\* C11: whenever the assembler adds the NotCoveredBytes warning, the count
\* in its message is the number of byte positions of the file that lie in
\* no byte range of non-zero length and not in the located Contents window,
\* which is |F| minus the total length of the merged coverage.
C11_WarningCountsUncoveredBytes ==
    (asmOut # << >> /\ NotCoveredBytesWarned(asmOut[1].result))
      => asmOut[1].result.warnings
           = << ToString(Cardinality(UncoveredPositions(asmIn.signature.byteRanges,
                    ContentsInterval(asmIn.signature.contents.data, asmIn.sourceData),
                    asmIn.sourceData)))
                \o " bytes are not covered by signature." >>

\* The warning was added for a file of which a byte range covers a part,
\* the located window another part, and a byte is left over.
C11_Witness_RangeAndWindowAndGap ==
    /\ asmOut # << >>
    /\ NotCoveredBytesWarned(asmOut[1].result)
    /\ ContentsInterval(asmIn.signature.contents.data, asmIn.sourceData) # << >>
    /\ asmIn.signature.contents.data # << >>
    /\ \E p \in 0..(Len(asmIn.sourceData) - 1) :
          InByteRange(asmIn.signature.byteRanges, p)
    /\ asmOut[1].result.warnings = << "1 bytes are not covered by signature." >>

\* The file holds at w the hex encoding of contents, all in lower case or
\* all in upper case, between the delimiters < and >.
IsContentsWindow(sourceData, contents, w) ==
    /\ w >= 0
    /\ w + 2 * Len(contents) + 2 <= Len(sourceData)
    /\ sourceData[w + 1] = "<"
    /\ sourceData[w + 2 * Len(contents) + 2] = ">"
    /\ \/ SubSeq(sourceData, w + 2, w + 2 * Len(contents) + 1) = toHex(contents)
       \/ SubSeq(sourceData, w + 2, w + 2 * Len(contents) + 1) = toUpper(toHex(contents))

\* The byte ranges lie in the file and cover every byte of it except the
\* window of Contents that starts at w.
CoversAllButWindow(byteRanges, sourceData, contents, w) ==
    /\ IsContentsWindow(sourceData, contents, w)
    /\ \A i \in 1..Len(byteRanges) :
          /\ byteRanges[i].size >= 0
          /\ byteRanges[i].offset >= 0
          /\ byteRanges[i].offset + byteRanges[i].size <= Len(sourceData)
    /\ \A p \in 0..(Len(sourceData) - 1) :
          InByteRange(byteRanges, p) <=> ~(w <= p /\ p <= w + 2 * Len(contents) + 1)

\* C12: when the byte ranges cover every byte of the file except the
\* window occupied by the hex encoding of Contents (lower or upper case,
\* with its delimiters), the assembler adds no NotCoveredBytes warning.
C12_NoWarningWhenOnlyWindowUncovered ==
    (/\ asmOut # << >>
     /\ \E w \in 0..Len(asmIn.sourceData) :
           CoversAllButWindow(asmIn.signature.byteRanges, asmIn.sourceData,
                              asmIn.signature.contents.data, w))
      => ~NotCoveredBytesWarned(asmOut[1].result)

\* The same for a window of a non-empty Contents whose hex encoding does
\* not occur in the file before the window: the search finds the window.
C12_NoWarningWhenWindowIsFirstOccurrence ==
    (/\ asmOut # << >>
     /\ asmIn.signature.contents.data # << >>
     /\ \E w \in 0..Len(asmIn.sourceData) :
           /\ CoversAllButWindow(asmIn.signature.byteRanges, asmIn.sourceData,
                                 asmIn.signature.contents.data, w)
           /\ ContentsInterval(asmIn.signature.contents.data, asmIn.sourceData)
                = << [ firstByteIndex |-> w,
                       lastByteIndex |-> w + 2 * Len(asmIn.signature.contents.data) + 1 ] >>)
      => ~NotCoveredBytesWarned(asmOut[1].result)

\* The assembler ran on a file whose byte ranges leave out exactly the
\* window, and the search found the window.
C12_Witness_WindowFound ==
    /\ asmOut # << >>
    /\ asmOut[1].bio
    /\ asmIn.signature.contents.data # << >>
    /\ Len(asmIn.signature.byteRanges) = 2
    /\ \E w \in 1..Len(asmIn.sourceData) :
           /\ CoversAllButWindow(asmIn.signature.byteRanges, asmIn.sourceData,
                                 asmIn.signature.contents.data, w)
           /\ ContentsInterval(asmIn.signature.contents.data, asmIn.sourceData)
                = << [ firstByteIndex |-> w,
                       lastByteIndex |-> w + 2 * Len(asmIn.signature.contents.data) + 1 ] >>

(***************************************************************************)
(* Warnings and the flags of a verification, checked under Spec.           *)
(***************************************************************************)
\* C13: the result of a run of an engine (verify(), so not the result made
\* for a field without handler) that carries no error of the certificate
\* group and no error of the signature group carries Certificate_OK,
\* Signature_OK and OK, whether or not it carries the NotCoveredBytes
\* warning.
C13_NoErrorMeansOK ==
    \A t \in Threads : \A i \in 1..Len(results[t]) :
        LET r == results[t][i]
        IN  ("Error_NoHandler" \notin r.flags /\ r.flags \cap ErrorFlagsOfPhases = {})
              => { "Certificate_OK", "Signature_OK", "OK" } \subseteq r.flags

\* A verification returned a result with the NotCoveredBytes warning, its
\* message and OK.
C13_Witness_WarnedAndOK ==
    \E t \in Threads :
        /\ Returned(t)
        /\ \E i \in 1..Len(results[t]) :
              /\ NotCoveredBytesWarned(results[t][i])
              /\ results[t][i].warnings # << >>
              /\ results[t][i].flags \cap ErrorFlagsOfPhases = {}
              /\ "OK" \in results[t][i].flags

(***************************************************************************)
(* Properties of the certificate store, checked under StoreSpec.           *)
(***************************************************************************)
\* The entries of m_certificates that hold the info.
EntriesOf(certificates, certificateInfo) ==
    { i \in 1..Len(certificates) : certificates[i].info = certificateInfo }

\* C14: after any sequence of calls of add, of either overload and with any
\* entry types, no two entries of the store hold equal infos; after
\* add(t, info) the store holds exactly one entry for info, also when the
\* call before it added the same info.
C14_NoTwoEntriesWithEqualInfo ==
    /\ \A i, j \in 1..Len(store) : store[i].info = store[j].info => i = j
    /\ (lastAdd # << >> /\ lastAdd[1].info # << >>)
         => Cardinality(EntriesOf(store, lastAdd[1].info[1])) = 1

\* The store holds two entries and its last add, the third one, was given
\* an info the store held already under the other entry type.
C14_Witness_AddedAgain ==
    /\ adds = 3
    /\ Len(store) = 2
    /\ lastAdd # << >>
    /\ lastAdd[1].info # << >>
    /\ lastAdd[1].before = store
    /\ \E i \in EntriesOf(store, lastAdd[1].info[1]) : store[i].type # lastAdd[1].type

\* C15: add(type, info) returns true exactly when the call appended a new
\* entry, and false when an entry with an equal info was already present
\* and nothing was appended.
C15_AddReturnsWhetherAppended ==
    (lastAdd # << >> /\ lastAdd[1].overload = "info")
      => (lastAdd[1].returned <=> Len(store) = Len(lastAdd[1].before) + 1)

\* The store that was written: the entries the store held when it was
\* serialized, the first n of the entries it holds now.
WrittenPrefixes ==
    { n \in 0..Len(store) : stream = << serialize(SubSeq(store, 1, n)) >> }

\* The stream with another number in the place of its first item.
WithVersion(dataStream, version) == [ dataStream EXCEPT ![1] = version ]

\* Version numbers other writers may have used.
OtherVersions == { 0, 2 }

\* serialize and deserialize of an info agree: the items are written in
\* the stated order, reading them back yields the info and uses up the
\* stream, whatever the first item is.
InfoRoundTrips(certificateInfo) ==
    /\ serializeInfo(certificateInfo)
         = << persist_version, certificateInfo.version, certificateInfo.keySize,
              certificateInfo.publicKey, certificateInfo.nameEntries,
              certificateInfo.notValidBefore, certificateInfo.notValidAfter,
              certificateInfo.keyUsage, certificateInfo.certificateData >>
    /\ deserializeInfo(serializeInfo(certificateInfo))
         = [ value |-> certificateInfo, rest |-> << >> ]
    /\ \A version \in OtherVersions :
          deserializeInfo(WithVersion(serializeInfo(certificateInfo), version)).value
            = certificateInfo

\* C16: the store read from the stream equals the store that was written:
\* the same entries in the same order with the same entry types; every
\* info of the store is read back from what serialize writes for it, the
\* items being written and read in the order version number, version, key
\* size, public key, name entries, not valid before, not valid after, key
\* usage, certificate data; the value of the leading version number does
\* not change what is read.
C16_SerializationRoundTrips ==
    /\ deserialize(serialize(store)) = store
    /\ \A version \in OtherVersions :
          deserialize(WithVersion(serialize(store), version)) = store
    /\ \A i \in 1..Len(store) : InfoRoundTrips(store[i].info)
    /\ loaded # << >>
         => /\ WrittenPrefixes # {}
            /\ \A n \in WrittenPrefixes : loaded[1] = SubSeq(store, 1, n)

\* A store of two entries of different types was written and read back,
\* and the store received another entry afterwards.
C16_Witness_TwoEntriesReadBack ==
    /\ loaded # << >>
    /\ Len(loaded[1]) = 2
    /\ loaded[1][1].type # loaded[1][2].type
    /\ loaded[1][1].info.version # loaded[1][1].info.keySize
    /\ Len(store) = 3

(***************************************************************************)
(* The flag OK in the course of a run of verify(), checked under Spec.     *)
(***************************************************************************)
\* The positions of verify() between initializeResult and the return of
\* validate().
BeforeValidateReturns ==
    { "verifyCertificate", "verifyCertificate.locked", "verifyCertificate.return",
      "verifySignature", "verifySignature.locked", "verifySignature.return",
      "verifyRSACertificate", "verifyRSASignature", "validate" }

\* OK is not set while the phases run and validate() has not returned.
OKUnsetUntilValidate ==
    \A t \in Threads : pc[t] \in BeforeValidateReturns => "OK" \notin result[t].flags

\* A step of thread t, as far as the result of its run and the results it
\* has returned are concerned.
OKStep(t) ==
    \* validate() is the step that sets OK, and it adds no message
    /\ ("OK" \notin result[t].flags /\ "OK" \in result'[t].flags)
         => /\ pc[t] = "validate"
            /\ result'[t] = [ result[t] EXCEPT !.flags = @ \cup { "OK" } ]
    \* validate() is the last step: what follows it is the return of the
    \* result as it is
    /\ pc[t] = "validate" => pc'[t] \in { "validate", "emplace" }
    /\ pc[t] = "emplace"
         => /\ result'[t] = result[t]
            /\ results'[t] \in { results[t], Append(results[t], result[t]) }
    \* the result changes after validate() only when verify() starts anew
    \* on a new result for the next field
    /\ ("OK" \in result[t].flags /\ result'[t] # result[t]) => pc[t] = "verify"
    \* a result that was returned is not changed
    /\ Len(results'[t]) >= Len(results[t])
    /\ \A i \in 1..Len(results[t]) : results'[t][i] = results[t][i]

\* C17: in a run of each engine OK is unset until validate() is called;
\* validate() is the last step, after the certificate phase and the
\* signature phase; no error and no warning is added after validate();
\* and no operation clears OK once it is set.
C17_OKMonotonic == [] OKUnsetUntilValidate /\ [][\A t \in Threads : OKStep(t)]_vars

\* verifySignatures returned two results: the run of the first field ended
\* with OK, and the run of the second field, without OK, came after it.
C17_Witness_OKThenAnotherRun ==
    \E t \in Threads :
        /\ Returned(t)
        /\ Len(results[t]) = 2
        /\ "OK" \in results[t][1].flags
        /\ "OK" \notin results[t][2].flags
        /\ "Error_NoHandler" \notin results[t][2].flags

(***************************************************************************)
(* The errors of the signature phase, checked under Spec.                  *)
(***************************************************************************)
\* The messages of the two errors a failed verification is mapped to.
DigestFailureMessage == addSignatureDigestFailureError(EmptyResult).errors[1]

DataOtherMessage == addSignatureDataOtherError(EmptyResult).errors[1]

\* The messages that the verification calls of the signer infos from i on
\* ask for, by the failure reason of each call: one message for each call
\* that fails, none for the signer infos after a missing signer.
RECURSIVE MessagesOfFailingSigners(_, _)
MessagesOfFailingSigners(pkcs7, i) ==
    IF i > Len(pkcs7.signer_info) THEN << >>
    ELSE LET signerInfoValue == pkcs7.signer_info[i]
         IN  IF signerInfoValue.signer = << >> THEN << >>
             ELSE (IF signerInfoValue.signatureVerify > 0 THEN << >>
                   ELSE IF signerInfoValue.errReason = PKCS7_R_DIGEST_FAILURE
                   THEN << DigestFailureMessage >>
                   ELSE << DataOtherMessage >>)
                  \o MessagesOfFailingSigners(pkcs7, i + 1)

IsVerifyMessage(message) == message \in { DigestFailureMessage, DataOtherMessage }

\* The signature phase of a PKCS#7 engine reaches the loop over the signer
\* infos of the field.
ReachesSignerLoop(c, field) ==
    /\ field.signature.subfilter \in Pkcs7Subfilters
    /\ field.signature.contents.pkcs7 # << >>
    /\ getSignedDataBuffer(EmptyResult, field.signature, c.sourceData, c.bioAlloc).bio
    /\ c.bioAlloc
    /\ field.signature.contents.pkcs7[1].dataInit
    /\ Len(field.signature.contents.pkcs7[1].signer_info) > 0
    /\ getCertificates(field.signature.contents.pkcs7[1]) # << >>

\* C18: in the signature phase of the PKCS#7 engines, each signer whose
\* verification call fails gets exactly one error: DigestFailure if the
\* failure reason of that call is DIGEST_FAILURE, DataOther for any other
\* reason.
C18_FailingSignerMappedByItsReason ==
    \A t \in Threads : \A i \in 1..Len(results[t]) :
        LET r == results[t][i]
        IN  ("Error_NoHandler" \notin r.flags /\ ReachesSignerLoop(call[t], FieldOf(t, r)))
              => SelectSeq(r.errors, IsVerifyMessage)
                   = MessagesOfFailingSigners(FieldOf(t, r).signature.contents.pkcs7[1], 1)

\* The signature phase of the legacy RSA engine calls RSA_verify for the
\* field.
ReachesRSAVerify(c, field) ==
    /\ field.signature.subfilter = "adbe.x509.rsa_sha1"
    /\ createCertificate(field.signature, 0) # << >>
    /\ createCertificate(field.signature, 0)[1].pubkey
    /\ createCertificate(field.signature, 0)[1].rsa
    /\ getSignedDataBuffer(EmptyResult, field.signature, c.sourceData, c.bioAlloc).bio
    /\ field.signature.contents.octetString # << >>
    /\ getMessageDigest(field.signature.contents.octetString[1])

\* What the claim requires of the result r of a field whose RSA_verify
\* came out as parsed tells.
RSAVerifyMapped(r, parsed) ==
    /\ (parsed.rsaVerify <= 0 /\ parsed.errReason = RSA_R_DIGEST_DOES_NOT_MATCH)
         => /\ "Error_Signature_DigestFailure" \in r.flags
            /\ "Error_Signature_DataOther" \notin r.flags
    /\ (parsed.rsaVerify <= 0 /\ parsed.errReason # RSA_R_DIGEST_DOES_NOT_MATCH)
         => /\ "Error_Signature_DataOther" \in r.flags
            /\ "Error_Signature_DigestFailure" \notin r.flags
    /\ "Signature_OK" \in r.flags => parsed.rsaVerify > 0

\* C19: in the signature phase of the legacy RSA engine an outcome of
\* RSA_verify with the reason RSA_R_DIGEST_DOES_NOT_MATCH records
\* DigestFailure, every other outcome that is not a success (zero or
\* negative) records DataOther, and Signature_OK is set only when
\* RSA_verify reported success.
C19_RSAVerifyOutcomeMapped ==
    \A t \in Threads : \A i \in 1..Len(results[t]) :
        LET r == results[t][i]
        IN  ("Error_NoHandler" \notin r.flags /\ ReachesRSAVerify(call[t], FieldOf(t, r)))
              => RSAVerifyMapped(r, FieldOf(t, r).signature.contents.octetString[1])

\* The same for the outcomes 1 and 0 of RSA_verify when the error queue of
\* the thread was empty before the signature phase: the reason read is the
\* one of RSA_verify.
C19_RSAVerifyZeroMappedOnEmptyQueue ==
    \A t \in Threads : \A i \in 1..Len(results[t]) :
        LET r == results[t][i]
            field == FieldOf(t, r)
        IN  (/\ "Error_NoHandler" \notin r.flags
             /\ ReachesRSAVerify(call[t], field)
             /\ i = 1
             /\ verifyRSACertificateErrors(field.signature, << >>) = << >>
             /\ field.signature.contents.octetString[1].rsaVerify >= 0)
              => RSAVerifyMapped(r, field.signature.contents.octetString[1])

\* The part of it about RSA_verify returning 0 with the reason
\* RSA_R_DIGEST_DOES_NOT_MATCH, whatever the certificate phase has left in
\* the error queue of the thread: DigestFailure is recorded.
C19_DigestMismatchAfterStaleError ==
    \A t \in Threads : \A i \in 1..Len(results[t]) :
        LET r == results[t][i]
            field == FieldOf(t, r)
        IN  (/\ "Error_NoHandler" \notin r.flags
             /\ ReachesRSAVerify(call[t], field)
             /\ field.signature.contents.octetString[1].rsaVerify = 0
             /\ field.signature.contents.octetString[1].errReason = RSA_R_DIGEST_DOES_NOT_MATCH)
              => "Error_Signature_DigestFailure" \in r.flags

\* The certificate infos of a stack of certificates, in the order of the stack.
InfosOf(stack) == [ k \in 1..Len(stack) |-> getCertificateInfo(stack[k]) ]

\* The certificate infos that the signer infos of a container from i on
\* ask for: for a signer whose chain validation ran, those of the validated
\* chain on success and those of the presented certificates on failure;
\* none for the signer at which the loop is left, nor after it.
RECURSIVE InfosOfSigners(_, _, _)
InfosOfSigners(pkcs7, i, parameters) ==
    IF i > Len(pkcs7.signer_info) THEN << >>
    ELSE LET signerInfoValue == pkcs7.signer_info[i]
         IN  IF \/ signerInfoValue.signer = << >>
                \/ ~signerInfoValue.ctxInit
                \/ ~signerInfoValue.setPurpose
             THEN << >>
             ELSE (IF X509_verify_cert(signerInfoValue, VerifyFlags(parameters))
                         .verificationResult > 0
                   THEN InfosOf(signerInfoValue.chain)
                   ELSE InfosOf(getCertificates(pkcs7)[1]))
                  \o InfosOfSigners(pkcs7, i + 1, parameters)

\* The certificates that the Cert array of a signature of the legacy RSA
\* engine presents: its entries up to the first that does not parse.
PresentedSubjects(signature) ==
    LET presented == PushedCertificates(signature, 0)
    IN  [ k \in 1..Len(presented) |-> presented[k].subject ]

\* The certificate infos that a field asks for, by its engine.
InfosOfField(field, parameters) ==
    LET signature == field.signature
    IN  IF signature.subfilter \in Pkcs7Subfilters
        THEN IF /\ signature.contents.pkcs7 # << >>
                /\ Len(signature.contents.pkcs7[1].signer_info) > 0
                /\ getCertificates(signature.contents.pkcs7[1]) # << >>
             THEN InfosOfSigners(signature.contents.pkcs7[1], 1, parameters)
             ELSE << >>
        ELSE LET first == createCertificate(signature, 0)
             IN  IF first = << >> \/ ~first[1].ctxInit \/ ~first[1].setPurpose
                 THEN << >>
                 ELSE IF X509_verify_cert(first[1], VerifyFlags(parameters))
                             .verificationResult > 0
                 THEN InfosOf(first[1].chain)
                 ELSE InfosOf(PresentedSubjects(signature))

\* C20: in the certificate phase of every engine, a signer whose chain
\* validation ran and succeeded gets the certificate infos of the validated
\* chain, leaf first; one whose validation failed gets those of all
\* presented certificates, in the order presented; a signer for which the
\* validation is not reached gets none.
C20_InfosOfChainOrOfPresented ==
    \A t \in Threads : \A i \in 1..Len(results[t]) :
        LET r == results[t][i]
        IN  "Error_NoHandler" \notin r.flags
              => r.certificateInfos = InfosOfField(FieldOf(t, r), call[t].parameters)

\* The same for the PKCS#7 engines alone.
C20_Pkcs7InfosOfChainOrOfPresented ==
    \A t \in Threads : \A i \in 1..Len(results[t]) :
        LET r == results[t][i]
        IN  (/\ "Error_NoHandler" \notin r.flags
             /\ FieldOf(t, r).signature.subfilter \in Pkcs7Subfilters)
              => r.certificateInfos = InfosOfField(FieldOf(t, r), call[t].parameters)

\* The same for the legacy RSA engine when its Cert array holds one
\* certificate that parses, so that no freed certificate is read.
C20_RSAInfosOfSingleCertificate ==
    \A t \in Threads : \A i \in 1..Len(results[t]) :
        LET r == results[t][i]
            field == FieldOf(t, r)
        IN  (/\ "Error_NoHandler" \notin r.flags
             /\ field.signature.subfilter = "adbe.x509.rsa_sha1"
             /\ PushedCertificates(field.signature, 1) = << >>)
              => r.certificateInfos = InfosOfField(field, call[t].parameters)

\* C21: for a signature whose byte range list is empty, the result of each
\* of the three engines carries Error_Signature_Invalid or
\* Error_Signature_NoSignaturesFound, and so neither Signature_OK nor OK.
C21_EmptyByteRangesRejected ==
    \A t \in Threads : \A i \in 1..Len(results[t]) :
        LET r == results[t][i]
        IN  ("Error_NoHandler" \notin r.flags /\ FieldOf(t, r).signature.byteRanges = << >>)
              => /\ r.flags \cap { "Error_Signature_Invalid",
                                   "Error_Signature_NoSignaturesFound" } # { }
                 /\ "Signature_OK" \notin r.flags
                 /\ "OK" \notin r.flags

\* Every engine run on a signature whose byte range list is empty comes to
\* its end and delivers a result.
C21_EmptyByteRangesRunsReturn ==
    \A t \in Threads :
        (pc[t] = "crashed" /\ handler[t] # << >>)
          => handler[t][1].signatureField.signature.byteRanges # << >>

\* The part of it about Signature_OK alone: no engine sets Signature_OK for
\* a signature whose byte range list is empty.
C21_NoSignatureOKOnEmptyByteRanges ==
    \A t \in Threads : \A i \in 1..Len(results[t]) :
        LET r == results[t][i]
        IN  ("Error_NoHandler" \notin r.flags /\ FieldOf(t, r).signature.byteRanges = << >>)
              => "Signature_OK" \notin r.flags

\* The two groups of flags of a result are judged each on its own.
GroupsIndependent(r) ==
    /\ "Signature_OK" \in r.flags <=> r.flags \cap SignatureErrorFlags = { }
    /\ "Certificate_OK" \in r.flags <=> r.flags \cap CertificateErrorFlags = { }
    /\ "OK" \in r.flags <=> { "Signature_OK", "Certificate_OK" } \subseteq r.flags

\* The signature phase follows the certificate phase, and validate()
\* follows the signature phase, whatever the result holds.
PhaseOrder(t) ==
    /\ (pc[t] = "verifyCertificate.return" /\ pc'[t] # pc[t])
         => pc'[t] = "verifySignature"
    /\ (pc[t] = "verifyRSACertificate" /\ pc'[t] \notin { pc[t], "crashed" })
         => pc'[t] = "verifyRSASignature"
    /\ (pc'[t] \in { "verifySignature", "verifyRSASignature" } /\ pc'[t] # pc[t])
         => pc[t] \in { "verifyCertificate.return", "verifyRSACertificate" }
    /\ (pc'[t] = "validate" /\ pc[t] # "validate")
         => pc[t] \in { "verifySignature.return", "verifyRSASignature" }

EngineResultsIndependent ==
    \A t \in Threads : \A i \in 1..Len(results[t]) :
        "Error_NoHandler" \notin results[t][i].flags => GroupsIndependent(results[t][i])

\* C22: the certificate group and the signature group are independent: the
\* signature phase always runs after the certificate phase; Signature_OK is
\* set exactly when no signature error was recorded and Certificate_OK
\* exactly when no certificate error was recorded, whatever the other group
\* holds; OK is set only when both are.
C22_GroupsIndependent ==
    [] EngineResultsIndependent /\ [][\A t \in Threads : PhaseOrder(t)]_vars

\* A run has delivered a result with Signature_OK and a self-signed
\* certificate, and one with Certificate_OK and a digest failure; OK is in
\* neither.
C22_Witness_BothMixedCases ==
    \E t \in Threads : \E i, j \in 1..Len(results[t]) :
        /\ { "Signature_OK", "Error_Certificate_SelfSigned" } \subseteq results[t][i].flags
        /\ "OK" \notin results[t][i].flags
        /\ { "Certificate_OK", "Error_Signature_DigestFailure" } \subseteq results[t][j].flags
        /\ "OK" \notin results[t][j].flags

\* The message that each flag is paired with; for the flags whose message
\* carries an argument, the messages of the arguments in use.
PairedMessages(flag) ==
    CASE flag = "Error_NoHandler" ->
            { "No signature handler for signature format '" \o format \o "'." :
                format \in UnknownSubfilters }
      [] flag = "Error_Certificate_Invalid" -> { "Certificate format is invalid." }
      [] flag = "Error_Certificate_NoSignatures" -> { "No signatures in certificate data." }
      [] flag = "Error_Certificate_Missing" -> { "Certificate is missing." }
      [] flag = "Error_Certificate_Generic" ->
            { "Generic error occured during certificate validation." }
      [] flag = "Error_Certificate_Expired" -> { "Certificate has expired." }
      [] flag = "Error_Certificate_SelfSigned" -> { "Certificate is self-signed." }
      [] flag = "Error_Certificate_SelfSignedChain" -> { "Self-signed certificate in chain." }
      [] flag = "Error_Certificate_TrustedNotFound" -> { "Trusted certificate not found." }
      [] flag = "Error_Certificate_Revoked" -> { "Certificate has been revoked." }
      [] flag = "Error_Certificate_Other" ->
            { "Certificate validation failed with code 7.",
              "Certificate validation failed with code 23." }
      [] flag = "Error_Signature_Invalid" -> { "Signature is invalid." }
      [] flag = "Error_Signature_NoSignaturesFound" ->
            { "No signatures found in certificate." }
      [] flag = "Error_Signature_SourceCertificateMissing" ->
            { "Signature certificate is missing." }
      [] flag = "Error_Signature_DigestFailure" ->
            { "Signed data has different hash function digest." }
      [] flag = "Error_Signature_DataOther" -> { "Signed data are invalid." }
      [] flag = "Error_Signature_DataCoveredBySignatureMissing" ->
            { "Data covered by signature are not present." }
      [] flag = "Warning_Signature_NotCoveredBytes" ->
            { "1 bytes are not covered by signature.",
              "2 bytes are not covered by signature." }

ErrorFlags == { "Error_NoHandler" } \cup CertificateErrorFlags \cup SignatureErrorFlags

Elements(messages) == { messages[k] : k \in 1..Len(messages) }

\* C23: after any sequence of add*Error and add*Warning calls on a result,
\* each error flag is set if and only if its message is in errors, the
\* NotCoveredBytes flag is set if and only if its message is in warnings,
\* no error message is in warnings and no warning message in errors, and
\* errors is empty exactly when no error flag is set.
C23_FlagsPairedWithMessages ==
    LET r == result[1]
    IN  /\ \A flag \in ErrorFlags :
              flag \in r.flags <=> Elements(r.errors) \cap PairedMessages(flag) # { }
        /\ \A flag \in WarningFlags :
              flag \in r.flags <=> Elements(r.warnings) \cap PairedMessages(flag) # { }
        /\ Elements(r.errors) \subseteq UNION { PairedMessages(flag) : flag \in ErrorFlags }
        /\ Elements(r.warnings) \subseteq UNION { PairedMessages(flag) : flag \in WarningFlags }
        /\ r.errors = << >> <=> r.flags \cap ErrorFlags = { }
        /\ r.flags \subseteq ErrorFlags \cup WarningFlags

\* The same error was added twice, then a warning.
C23_Witness_SameErrorTwiceAndWarning ==
    /\ Len(result[1].errors) = 2
    /\ result[1].errors[1] = result[1].errors[2]
    /\ Len(result[1].warnings) = 1
    /\ Cardinality(result[1].flags) = 2

DataMissingReported(r) == hasFlag(r, "Error_Signature_DataCoveredBySignatureMissing")

\* On failure the assembler adds no warning and returns no buffer.
FailureIsBare(out) ==
    DataMissingReported(out.result)
      => /\ ~NotCoveredBytesWarned(out.result)
         /\ out.result.warnings = << >>
         /\ ~out.bio

\* C24 as stated: the assembler fails with
\* Error_Signature_DataCoveredBySignatureMissing if and only if some range
\* of non-zero length has a negative offset or ends after the file, so a
\* list of ranges that each fit inside the file is always assembled; on
\* failure no NotCoveredBytes warning is added and no buffer is returned.
C24_FailsIffSomeRangeOutOfFile ==
    asmOut # << >>
      => /\ DataMissingReported(asmOut[1].result)
              <=> RangeOutOfFile(asmIn.signature.byteRanges, asmIn.sourceData)
         /\ FailureIsBare(asmOut[1])

\* The byte ranges hold a range of negative length.
NegativeLength(byteRanges) == \E i \in 1..Len(byteRanges) : byteRanges[i].size < 0

\* C24 amended: the assembler fails with
\* Error_Signature_DataCoveredBySignatureMissing if and only if the lengths
\* of the ranges sum to more than |F|, or some range of non-zero length has
\* a negative offset, ends after the file or has a negative length; so a
\* list of ranges that each fit inside the file and whose lengths sum to at
\* most |F| is always assembled; on failure no NotCoveredBytes warning is
\* added and no buffer is returned.
C24_FailsIffSumOrSomeRangeOutOfFile ==
    asmOut # << >>
      => /\ DataMissingReported(asmOut[1].result)
              <=> \/ SumOfLengths(asmIn.signature.byteRanges) > Len(asmIn.sourceData)
                  \/ RangeOutOfFile(asmIn.signature.byteRanges, asmIn.sourceData)
                  \/ NegativeLength(asmIn.signature.byteRanges)
         /\ FailureIsBare(asmOut[1])

\* The assembler failed on two ranges that each lie inside the file: their
\* lengths sum to more than the file holds.
C24_Witness_RangesFitButSumTooLarge ==
    /\ asmOut # << >>
    /\ DataMissingReported(asmOut[1].result)
    /\ Len(asmIn.signature.byteRanges) = 2
    /\ ~RangeOutOfFile(asmIn.signature.byteRanges, asmIn.sourceData)
    /\ ~NegativeLength(asmIn.signature.byteRanges)

\* The chain validation of some signer that the certificate phase of the
\* field processes returns failure (X509_verify_cert <= 0 under the flags
\* of the parameters).
RECURSIVE SomeValidationFails(_, _, _)
SomeValidationFails(pkcs7, i, parameters) ==
    IF i > Len(pkcs7.signer_info) THEN FALSE
    ELSE LET signerInfoValue == pkcs7.signer_info[i]
         IN  IF \/ signerInfoValue.signer = << >>
                \/ ~signerInfoValue.ctxInit
                \/ ~signerInfoValue.setPurpose
             THEN FALSE
             ELSE \/ X509_verify_cert(signerInfoValue, VerifyFlags(parameters))
                        .verificationResult <= 0
                  \/ SomeValidationFails(pkcs7, i + 1, parameters)

ValidationFailsForField(field, parameters) ==
    LET signature == field.signature
    IN  IF signature.subfilter \in Pkcs7Subfilters
        THEN /\ signature.contents.pkcs7 # << >>
             /\ Len(signature.contents.pkcs7[1].signer_info) > 0
             /\ getCertificates(signature.contents.pkcs7[1]) # << >>
             /\ SomeValidationFails(signature.contents.pkcs7[1], 1, parameters)
        ELSE LET first == createCertificate(signature, 0)
             IN  /\ first # << >>
                 /\ first[1].ctxInit
                 /\ first[1].setPurpose
                 /\ X509_verify_cert(first[1], VerifyFlags(parameters)).verificationResult <= 0

\* C25: whenever a chain validation call of the certificate phase returns
\* failure, whatever error code the validation context then reports, a
\* certificate error is recorded and Certificate_OK stays unset.
C25_FailedValidationRecorded ==
    \A t \in Threads : \A i \in 1..Len(results[t]) :
        LET r == results[t][i]
        IN  (/\ "Error_NoHandler" \notin r.flags
             /\ ValidationFailsForField(FieldOf(t, r), call[t].parameters))
              => /\ r.flags \cap CertificateErrorFlags # { }
                 /\ "Certificate_OK" \notin r.flags

\* Certificate_OK is set after a failed chain validation only when the
\* validation context of a failed signer reports X509_V_OK.
C25_CertificateOKOnlyIfNamedFailure ==
    \A t \in Threads : \A i \in 1..Len(results[t]) :
        LET r == results[t][i]
            field == FieldOf(t, r)
        IN  (/\ "Error_NoHandler" \notin r.flags
             /\ "Certificate_OK" \in r.flags
             /\ ValidationFailsForField(field, call[t].parameters))
              => IF field.signature.subfilter \in Pkcs7Subfilters
                 THEN \E k \in 1..Len(field.signature.contents.pkcs7[1].signer_info) :
                        /\ field.signature.contents.pkcs7[1].signer_info[k].verifyCert <= 0
                        /\ field.signature.contents.pkcs7[1].signer_info[k].ctxError = X509_V_OK
                 ELSE createCertificate(field.signature, 0)[1].ctxError = X509_V_OK

\* The signature phase of the field calls getSignedDataBuffer and gets no
\* buffer from it.
NoSignedDataBuffer(c, field) ==
    /\ field.signature.subfilter \in KnownSubfilters
    /\ ReachesAssembler(field.signature)
    /\ ~getSignedDataBuffer(EmptyResult, field.signature, c.sourceData, c.bioAlloc).bio

\* C26: whenever getSignedDataBuffer returns no buffer, for any reason
\* including the failure to create the memory buffer object, a signature
\* error is present in the result and Signature_OK stays unset.
C26_NoBufferNoSignatureOK ==
    \A t \in Threads : \A i \in 1..Len(results[t]) :
        LET r == results[t][i]
        IN  ("Error_NoHandler" \notin r.flags /\ NoSignedDataBuffer(call[t], FieldOf(t, r)))
              => /\ r.flags \cap SignatureErrorFlags # { }
                 /\ "Signature_OK" \notin r.flags

\* The same for the calls in which the memory buffer object can be
\* created: no buffer is returned because the byte ranges do not fit.
C26_NoBufferForByteRangesNoSignatureOK ==
    \A t \in Threads : \A i \in 1..Len(results[t]) :
        LET r == results[t][i]
        IN  (/\ "Error_NoHandler" \notin r.flags
             /\ call[t].bioAlloc
             /\ NoSignedDataBuffer(call[t], FieldOf(t, r)))
              => /\ "Error_Signature_DataCoveredBySignatureMissing" \in r.flags
                 /\ "Signature_OK" \notin r.flags

\* A certificate info read from a certificate whose memory was released.
FromFreedCertificate(certificateInfo) == certificateInfo.certificateData = "freed"

\* C27: no crypto object is used after it has been released: every
\* certificate on the chain stack of the legacy RSA engine is alive when
\* chain validation and the extraction of the certificate infos read the
\* stack, so no engine phase ends in a crash and no certificate info comes
\* from released memory.
C27_NoUseAfterRelease ==
    \A t \in Threads :
        /\ pc[t] # "crashed"
        /\ \A k \in 1..Len(result[t].certificateInfos) :
              ~FromFreedCertificate(result[t].certificateInfos[k])
        /\ \A i \in 1..Len(results[t]) : \A k \in 1..Len(results[t][i].certificateInfos) :
              ~FromFreedCertificate(results[t][i].certificateInfos[k])

\* The same for the PKCS#7 engines and for the legacy RSA engine on a Cert
\* array from which a single certificate is pushed: nothing released is read.
C27_NoUseAfterReleaseOfSingleCertificate ==
    \A t \in Threads :
        (handler[t] # << >>
         /\ PushedCertificates(handler[t][1].signatureField.signature, 1) = << >>)
          => /\ pc[t] # "crashed"
             /\ \A k \in 1..Len(result[t].certificateInfos) :
                   ~FromFreedCertificate(result[t].certificateInfos[k])

\* The interval that getSignedDataBuffer merges for Contents, << >> when the
\* search finds nothing.
MergedForContents == ContentsInterval(asmIn.signature.contents.data, asmIn.sourceData)

\* Every position of the file lies in a byte range of non-zero length or
\* in the interval merged for Contents.
EveryPositionCovered ==
    UncoveredPositions(asmIn.signature.byteRanges, MergedForContents, asmIn.sourceData) = { }

\* The assembler has run to its end on ranges that fit and has added no
\* warning.
SucceededWithoutWarning ==
    /\ asmOut # << >>
    /\ ~DataMissingReported(asmOut[1].result)
    /\ ~NotCoveredBytesWarned(asmOut[1].result)

\* C28: whenever the assembler succeeds without adding a NotCoveredBytes
\* warning, every byte position of the file lies inside some byte range of
\* non-zero length or inside the located occurrence of the hex encoded
\* Contents (plus an adjacent delimiter); and the interval merged for
\* Contents is always a non-empty interval inside [0, |F|-1], also when
\* Contents is empty or the file is empty.
C28_CoverageSound ==
    /\ SucceededWithoutWarning => EveryPositionCovered
    /\ (asmOut # << >> /\ MergedForContents # << >>)
         => /\ 0 <= MergedForContents[1].firstByteIndex
            /\ MergedForContents[1].firstByteIndex <= MergedForContents[1].lastByteIndex
            /\ MergedForContents[1].lastByteIndex <= Len(asmIn.sourceData) - 1

\* The first part of it alone.
C28_NoWarningMeansEveryPositionCovered ==
    SucceededWithoutWarning => EveryPositionCovered

\* The second part of it for Contents that is not empty.
C28_IntervalOfContentsInsideFile ==
    (asmOut # << >> /\ MergedForContents # << >> /\ asmIn.signature.contents.data # << >>)
      => /\ 0 <= MergedForContents[1].firstByteIndex
         /\ MergedForContents[1].firstByteIndex <= MergedForContents[1].lastByteIndex
         /\ MergedForContents[1].lastByteIndex <= Len(asmIn.sourceData) - 1

\* C29: add(type, info) on a store that already holds an entry with an
\* equal info leaves the store unchanged: the same entries in the same
\* order, the existing entry with its original entry type, also when the
\* call passes the other type; add of a new info appends one entry at the
\* end and leaves the existing entries as they were.
C29_AddOnlyAppendsNewInfo ==
    (lastAdd # << >> /\ lastAdd[1].info # << >>)
      => IF EntriesOf(lastAdd[1].before, lastAdd[1].info[1]) # { }
         THEN store = lastAdd[1].before
         ELSE /\ Len(store) = Len(lastAdd[1].before) + 1
              /\ SubSeq(store, 1, Len(lastAdd[1].before)) = lastAdd[1].before
              /\ store[Len(store)] = [ type |-> lastAdd[1].type, info |-> lastAdd[1].info[1] ]

\* The store held two entries when add(type, info) was called with the
\* info of its first entry and the other entry type; the first entry has
\* kept its type.
C29_Witness_FirstEntryAddedWithOtherType ==
    /\ lastAdd # << >>
    /\ lastAdd[1].overload = "info"
    /\ Len(lastAdd[1].before) = 2
    /\ lastAdd[1].before[1].info = lastAdd[1].info[1]
    /\ lastAdd[1].before[1].type # lastAdd[1].type
    /\ store[1].type = lastAdd[1].before[1].type

\* verify() of the engine of the field on a thread whose error queue is
\* empty, when the certificates of the legacy engine read back intact.
VerifyOnFreshThread(field, c) ==
    LET class == createHandler(field.signature.subfilter)[1]
        initial == initializeResult(EmptyResult, field)
    IN  IF class = "PDFSignatureHandler_adbe_pkcs7_rsa_sha1"
        THEN validate(verifyRSASignature(
                 verifyRSACertificate(initial, field.signature, c.parameters, "intact"),
                 field.signature, c.sourceData, c.bioAlloc,
                 verifyRSACertificateErrors(field.signature, << >>)))
        ELSE validate(verifySignature(class,
                 verifyCertificate(initial, field.signature, c.parameters),
                 field.signature, c.sourceData, c.bioAlloc,
                 verifyCertificateErrors(field.signature, << >>)))

\* What a caller reads of a result.
Verdict(r) == [ flags |-> r.flags, errors |-> r.errors, warnings |-> r.warnings ]

\* C30: the result of verifying a signature field is determined by the
\* field, the file, the parameters and the trust store alone: every run
\* gives the flags, errors and warnings that a run on a fresh thread gives,
\* whatever crypto calls failed earlier on the thread (earlier phase,
\* earlier signer, earlier field).
C30_ResultDeterminedByInputs ==
    \A t \in Threads : \A i \in 1..Len(results[t]) :
        LET r == results[t][i]
        IN  "Error_NoHandler" \notin r.flags
              => Verdict(r) = Verdict(VerifyOnFreshThread(FieldOf(t, r), call[t]))

\* The same for the fields of the PKCS#7 engines, which read no released
\* certificate.
C30_Pkcs7ResultDeterminedByInputs ==
    \A t \in Threads : \A i \in 1..Len(results[t]) :
        LET r == results[t][i]
        IN  (/\ "Error_NoHandler" \notin r.flags
             /\ FieldOf(t, r).signature.subfilter \in Pkcs7Subfilters)
              => Verdict(r) = Verdict(VerifyOnFreshThread(FieldOf(t, r), call[t]))

\* The same for the first field that a thread verifies with a PKCS#7
\* engine: its run starts with an empty error queue.
C30_FirstPkcs7FieldAsOnFreshThread ==
    \A t \in Threads :
        LET r == results[t][1]
        IN  (/\ results[t] # << >>
             /\ "Error_NoHandler" \notin r.flags
             /\ FieldOf(t, r).signature.subfilter \in Pkcs7Subfilters)
              => Verdict(r) = Verdict(VerifyOnFreshThread(FieldOf(t, r), call[t]))

====
